---- MODULE Spec2Model ----
(***************************************************************************)
(* Model of the process-website-search edge function                       *)
(* (supabase/functions/process-website-search/index.ts) and of the hook    *)
(* that invokes it and polls its record (src/hooks/useSearch.ts).          *)
(*                                                                         *)
(* Five specifications share the variables:                                *)
(*   Spec         the chunker tokenizeAndChunk and the ranker              *)
(*                performSemanticSearch on one cleaned text, step by step; *)
(*   ReducerSpec  the markup reducer parseAndCleanHTML on one page, and on *)
(*                its own output;                                          *)
(*   ServeSpec    the serve handler with fetchWebsiteContent, the status   *)
(*                store and the result sink, one run for each of two       *)
(*                search identifiers, interleaved at every await;          *)
(*   ContextSpec  detectContentContext on one chunk content;               *)
(*   HookSpec     the hook useSearch: performSearch, the polling chain of  *)
(*                pollForResults and clearResults, interleaved at every    *)
(*                await and timer.                                         *)
(*                                                                         *)
(* Strings are sequences of one-character strings.  Relevance scores are   *)
(* IEEE doubles in the code; here a score is a record [nan, micro]: nan    *)
(* marks NaN, micro is the value in units of 10^-6, truncated.             *)
(***************************************************************************)
EXTENDS Integers, Sequences, FiniteSets, TLC

VARIABLES
    htmlContent,        \* serve: const htmlContent (input of parseAndCleanHTML)
    recleaned,          \* parseAndCleanHTML applied to cleanedContent again
    run,                \* per search id: position and locals of the run that serves it
    searches,           \* table searches: the row of each search id
    searchResults,      \* table search_results: the inserted rows, in insertion order
    statusWrites,       \* per search id: the status values written to its row, in order
    contextContent,     \* detectContentContext: the argument content
    htmlTagContext,     \* detectContentContext: the returned label
    hook,               \* useSearch: the hook's state, its call and its poll chain
    cleanedContent,     \* serve: const cleanedContent (input of tokenizeAndChunk)
    maxTokensPerChunk,  \* SearchRequest.maxTokensPerChunk
    searchQuery,        \* SearchRequest.searchQuery
    maxResults,         \* SearchRequest.maxResults
    pc,                 \* position of the serve handler
    words,              \* tokenizeAndChunk: const words
    i,                  \* tokenizeAndChunk: loop variable i
    chunks,             \* the chunks array (built by tokenizeAndChunk, shared with the ranker)
    relevantChunks,     \* serve: const relevantChunks (performSemanticSearch's return value)
    tier,               \* which selection rule of performSemanticSearch produced the result
    errorMessage        \* serve catch block: error.message ("" when nothing was thrown)

\* the variables the chunker and the ranker leave alone
serveVars == <<run, searches, searchResults, statusWrites>>

contextVars == <<contextContent, htmlTagContext>>

otherVars == <<htmlContent, recleaned, serveVars, contextVars, hook>>

vars == <<cleanedContent, maxTokensPerChunk, searchQuery, maxResults, pc,
          words, i, chunks, relevantChunks, tier, errorMessage, otherVars>>

(***************************************************************************)
(* Bounds of the model                                                     *)
(***************************************************************************)
MaxWords == 4
MaxTokensBound == 3
MaxResultsBound == 4
MaxFragments == 4
MaxKeywords == 2
MaxSearches == 2

Min(a, b) == IF a < b THEN a ELSE b
Max(a, b) == IF a > b THEN a ELSE b

(***************************************************************************)
(* Characters and strings                                                  *)
(***************************************************************************)
\* \s of the regular expressions, restricted to the characters of the model
IsSpace(c) == c \in {" ", "\n"}

\* \w of the regular expressions ([A-Za-z0-9_])
IsWordChar(c) == c \in {"a", "b", "c", "A", "B", "1", "2", "_"}

\* String.prototype.toLowerCase on one character
LowerChar(c) ==
    CASE c = "A" -> "a" [] c = "B" -> "b" [] c = "C" -> "c" [] c = "E" -> "e"
      [] c = "L" -> "l" [] c = "M" -> "m"
      [] c = "P" -> "p" [] c = "S" -> "s" [] c = "T" -> "t" [] c = "Y" -> "y"
      [] OTHER -> c

toLowerCase(s) == [k \in 1..Len(s) |-> LowerChar(s[k])]

\* /[a-z]/.test(s)
HasLowerLetter(s) == \E k \in 1..Len(s) : s[k] \in {"a", "b", "c"}

\* Array.prototype.filter on a sequence, by a set of kept values' predicate
RECURSIVE FilterLonger(_, _)
FilterLonger(ss, n) ==
    IF ss = <<>> THEN <<>>
    ELSE IF Len(Head(ss)) > n THEN <<Head(ss)>> \o FilterLonger(Tail(ss), n)
         ELSE FilterLonger(Tail(ss), n)

\* s.split(/\s+/): the pieces between maximal whitespace runs; a leading or
\* trailing run leaves an empty piece at that end, "" splits to [""].
RECURSIVE SplitFrom(_, _, _)
SplitFrom(s, k, cur) ==
    IF k > Len(s) THEN <<cur>>
    ELSE IF IsSpace(s[k])
         THEN IF k > 1 /\ IsSpace(s[k - 1])
              THEN SplitFrom(s, k + 1, cur)
              ELSE <<cur>> \o SplitFrom(s, k + 1, <<>>)
         ELSE SplitFrom(s, k + 1, Append(cur, s[k]))

SplitWhitespace(s) == SplitFrom(s, 1, <<>>)

\* Array.prototype.join(' ')
RECURSIVE JoinSpace(_)
JoinSpace(ss) ==
    IF ss = <<>> THEN <<>>
    ELSE IF Len(ss) = 1 THEN Head(ss)
         ELSE Head(ss) \o <<" ">> \o JoinSpace(Tail(ss))

\* String.prototype.trim
RECURSIVE trim(_)
trim(s) ==
    IF s = <<>> THEN s
    ELSE IF IsSpace(Head(s)) THEN trim(Tail(s))
         ELSE IF IsSpace(s[Len(s)]) THEN trim(SubSeq(s, 1, Len(s) - 1))
              ELSE s

\* String.prototype.includes
includes(s, w) ==
    \E p \in 1..(Len(s) - Len(w) + 1) : SubSeq(s, p, p + Len(w) - 1) = w

\* String.prototype.substring(0, n)
substring0(s, n) == SubSeq(s, 1, Min(n, Len(s)))

\* String.prototype.slice(0, -n)
sliceDropLast(s, n) == SubSeq(s, 1, Len(s) - n)

(***************************************************************************)
(* The markup reducer parseAndCleanHTML                                    *)
(***************************************************************************)
\* the pattern's literal text lit stands at position p of s
StartsWithAt(s, p, lit) ==
    /\ p + Len(lit) - 1 <= Len(s)
    /\ \A j \in 1..Len(lit) : s[p + j - 1] = lit[j]

\* the same under the i flag; lit is written in lower case
StartsWithIgnoreCaseAt(s, p, lit) ==
    /\ p + Len(lit) - 1 <= Len(s)
    /\ \A j \in 1..Len(lit) : LowerChar(s[p + j - 1]) = lit[j]

\* the first position >= from where lit stands, 0 when there is none
IndexOfFrom(s, lit, from) ==
    LET found == {q \in from..Len(s) : StartsWithAt(s, q, lit)}
    IN  IF found = {} THEN 0 ELSE CHOOSE q \in found : \A r \in found : q <= r

IndexOfIgnoreCaseFrom(s, lit, from) ==
    LET found == {q \in from..Len(s) : StartsWithIgnoreCaseAt(s, q, lit)}
    IN  IF found = {} THEN 0 ELSE CHOOSE q \in found : \A r \in found : q <= r

\* /<(name1|name2|...)[^>]*>[\s\S]*?<\/\1>/i tried at position p: the position of
\* the match's last character, 0 when there is no match at p.  [^>]* ends at the
\* first ">" after the name, the lazy body at the first closing tag after it.
ElementEnd(s, names, p) ==
    LET opened == IF s[p] = "<"
                  THEN {k \in 1..Len(names) :
                            StartsWithIgnoreCaseAt(s, p, <<"<">> \o names[k])}
                  ELSE {}
    IN  IF opened = {} THEN 0
        ELSE LET name == names[CHOOSE k \in opened : TRUE]
                 gt   == IndexOfFrom(s, <<">">>, p + 1 + Len(name))
                 shut == IF gt = 0 THEN 0
                         ELSE IndexOfIgnoreCaseFrom(s, <<"<", "/">> \o name \o <<">">>, gt + 1)
             IN  IF shut = 0 THEN 0 ELSE shut + Len(name) + 2

\* html.replace(/<(names)[^>]*>[\s\S]*?<\/\1>/gi, '')
RECURSIVE RemoveElementsFrom(_, _, _)
RemoveElementsFrom(s, names, p) ==
    IF p > Len(s) THEN <<>>
    ELSE LET e == ElementEnd(s, names, p)
         IN  IF e > 0 THEN RemoveElementsFrom(s, names, e + 1)
             ELSE <<s[p]>> \o RemoveElementsFrom(s, names, p + 1)

RemoveElementsMutant(s, names) == s
RemoveElements(s, names) == RemoveElementsFrom(s, names, 1)

\* html.replace(/<!--[\s\S]*?-->/g, '')
RECURSIVE RemoveCommentsFrom(_, _)
RemoveCommentsFrom(s, p) ==
    IF p > Len(s) THEN <<>>
    ELSE LET shut == IF StartsWithAt(s, p, <<"<", "!", "-", "-">>)
                     THEN IndexOfFrom(s, <<"-", "-", ">">>, p + 4) ELSE 0
         IN  IF shut > 0 THEN RemoveCommentsFrom(s, shut + 3)
             ELSE <<s[p]>> \o RemoveCommentsFrom(s, p + 1)

RemoveComments(s) == RemoveCommentsFrom(s, 1)

ScriptElement == << <<"s", "c", "r", "i", "p", "t">> >>
StyleElement == << <<"s", "t", "y", "l", "e">> >>
ChromeElements == << <<"n", "a", "v">>, <<"h", "e", "a", "d", "e", "r">>, <<"f", "o", "o", "t", "e", "r">>, <<"a", "s", "i", "d", "e">>, <<"m", "e", "n", "u">> >>

\* the closing tags of /<\/(div|p|h[1-6]|li|section|article|blockquote|pre)>/gi
BlockClosers ==
    { <<"<", "/", "d", "i", "v", ">">>, <<"<", "/", "p", ">">>, <<"<", "/", "h", "1", ">">>, <<"<", "/", "h", "2", ">">>, <<"<", "/", "h", "3", ">">>, <<"<", "/", "h", "4", ">">>, <<"<", "/", "h", "5", ">">>, <<"<", "/", "h", "6", ">">>,
      <<"<", "/", "l", "i", ">">>, <<"<", "/", "s", "e", "c", "t", "i", "o", "n", ">">>, <<"<", "/", "a", "r", "t", "i", "c", "l", "e", ">">>, <<"<", "/", "b", "l", "o", "c", "k", "q", "u", "o", "t", "e", ">">>, <<"<", "/", "p", "r", "e", ">">> }

\* the closing block tag standing at position p, <<>> when there is none
BlockCloserAt(s, p) ==
    LET here == IF s[p] = "<"
                THEN {lit \in BlockClosers : StartsWithIgnoreCaseAt(s, p, lit)}
                ELSE {}
    IN  IF here = {} THEN <<>> ELSE CHOOSE lit \in here : TRUE

\* text.replace(/<\/(div|p|...)>/gi, '\n')
RECURSIVE ReplaceBlockClosersFrom(_, _)
ReplaceBlockClosersFrom(s, p) ==
    IF p > Len(s) THEN <<>>
    ELSE LET lit == BlockCloserAt(s, p)
         IN  IF lit # <<>> THEN <<"\n">> \o ReplaceBlockClosersFrom(s, p + Len(lit))
             ELSE <<s[p]>> \o ReplaceBlockClosersFrom(s, p + 1)

ReplaceBlockClosers(s) == ReplaceBlockClosersFrom(s, 1)

\* text.replace(/<[^>]*>/g, ' ')
RECURSIVE StripTagsFrom(_, _)
StripTagsFrom(s, p) ==
    IF p > Len(s) THEN <<>>
    ELSE LET gt == IF s[p] = "<" THEN IndexOfFrom(s, <<">">>, p + 1) ELSE 0
         IN  IF gt > 0 THEN <<" ">> \o StripTagsFrom(s, gt + 1)
             ELSE <<s[p]>> \o StripTagsFrom(s, p + 1)

\* replace without the g flag: the first tag only
StripTagsMutant(s) ==
    LET lts == {p \in 1..Len(s) : s[p] = "<" /\ IndexOfFrom(s, <<">">>, p + 1) > 0}
    IN  IF lts = {} THEN s
        ELSE LET p == CHOOSE q \in lts : \A r \in lts : q <= r
             IN  SubSeq(s, 1, p - 1) \o <<" ">>
                    \o SubSeq(s, IndexOfFrom(s, <<">">>, p + 1) + 1, Len(s))
StripTags(s) == StripTagsFrom(s, 1)

\* text.replace(/lit/g, rep) for a literal pattern
RECURSIVE ReplaceAllFrom(_, _, _, _)
ReplaceAllFrom(s, lit, rep, p) ==
    IF p > Len(s) THEN <<>>
    ELSE IF StartsWithAt(s, p, lit) THEN rep \o ReplaceAllFrom(s, lit, rep, p + Len(lit))
         ELSE <<s[p]>> \o ReplaceAllFrom(s, lit, rep, p + 1)

ReplaceAll(s, lit, rep) ==
    IF \A k \in 1..Len(s) : s[k] # lit[1] THEN s ELSE ReplaceAllFrom(s, lit, rep, 1)

EntityNbsp == <<"&", "n", "b", "s", "p", ";">>
EntityAmp == <<"&", "a", "m", "p", ";">>
EntityLt == <<"&", "l", "t", ";">>
EntityGt == <<"&", "g", "t", ";">>
EntityQuot == <<"&", "q", "u", "o", "t", ";">>
EntityApos == <<"&", "#", "3", "9", ";">>

\* the decoding without its &quot; line
DecodeEntitiesMutant(s) ==
    LET t1 == ReplaceAll(s, EntityNbsp, <<" ">>)
        t2 == ReplaceAll(t1, EntityAmp, <<"&">>)
        t3 == ReplaceAll(t2, EntityLt, <<"<">>)
        t4 == ReplaceAll(t3, EntityGt, <<">">>)
    IN  ReplaceAll(t4, EntityApos, <<"'">>)
\* the six replace calls that decode entities, in the order of the source
DecodeEntities(s) ==
    LET t1 == ReplaceAll(s, EntityNbsp, <<" ">>)
        t2 == ReplaceAll(t1, EntityAmp, <<"&">>)
        t3 == ReplaceAll(t2, EntityLt, <<"<">>)
        t4 == ReplaceAll(t3, EntityGt, <<">">>)
        t5 == ReplaceAll(t4, EntityQuot, <<"\"">>)
    IN  ReplaceAll(t5, EntityApos, <<"'">>)

\* the first position >= p that holds no whitespace (Len(s) + 1 when none)
RECURSIVE SkipSpaces(_, _)
SkipSpaces(s, p) == IF p <= Len(s) /\ IsSpace(s[p]) THEN SkipSpaces(s, p + 1) ELSE p

\* text.replace(/\s+/g, ' ')
RECURSIVE CollapseWhitespaceFrom(_, _)
CollapseWhitespaceFrom(s, p) ==
    IF p > Len(s) THEN <<>>
    ELSE IF IsSpace(s[p]) THEN <<" ">> \o CollapseWhitespaceFrom(s, SkipSpaces(s, p))
         ELSE <<s[p]>> \o CollapseWhitespaceFrom(s, p + 1)

CollapseWhitespace(s) == CollapseWhitespaceFrom(s, 1)

\* text.replace(/\n\s+/g, '\n')
RECURSIVE StripAfterNewlineFrom(_, _)
StripAfterNewlineFrom(s, p) ==
    IF p > Len(s) THEN <<>>
    ELSE IF s[p] = "\n" /\ p < Len(s) /\ IsSpace(s[p + 1])
         THEN <<"\n">> \o StripAfterNewlineFrom(s, SkipSpaces(s, p + 1))
         ELSE <<s[p]>> \o StripAfterNewlineFrom(s, p + 1)

StripAfterNewline(s) == StripAfterNewlineFrom(s, 1)

\* the first position >= p that holds no "\n"
RECURSIVE SkipNewlines(_, _)
SkipNewlines(s, p) == IF p <= Len(s) /\ s[p] = "\n" THEN SkipNewlines(s, p + 1) ELSE p

\* text.replace(/\n+/g, '\n\n')
RECURSIVE DoubleNewlinesFrom(_, _)
DoubleNewlinesFrom(s, p) ==
    IF p > Len(s) THEN <<>>
    ELSE IF s[p] = "\n" THEN <<"\n", "\n">> \o DoubleNewlinesFrom(s, SkipNewlines(s, p))
         ELSE <<s[p]>> \o DoubleNewlinesFrom(s, p + 1)

DoubleNewlines(s) == DoubleNewlinesFrom(s, 1)

\* the text after the tags are gone and before the entities are decoded
StripMarkup(html) ==
    LET noScript == RemoveElements(html, ScriptElement)
        noStyle  == RemoveElements(noScript, StyleElement)
        noRemark == RemoveComments(noStyle)
        noChrome == RemoveElements(noRemark, ChromeElements)
    IN  StripTags(ReplaceBlockClosers(noChrome))

parseAndCleanHTML(html) ==
    trim(DoubleNewlines(StripAfterNewline(CollapseWhitespace(DecodeEntities(StripMarkup(html))))))

(***************************************************************************)
(* Scores                                                                  *)
(***************************************************************************)
NaN == [nan |-> TRUE, micro |-> 0]

Number(m) == [nan |-> FALSE, micro |-> m]

Zero == Number(0)

One == Number(1000 * 1000)

\* x > 0 on doubles: false for NaN
Positive(x) == ~x.nan /\ x.micro > 0

\* Math.min(x, 1)
MathMinOne(x) == IF x.nan THEN NaN ELSE Number(Min(x.micro, One.micro))

\* Math.max(x, y)
MathMax(x, y) == IF x.nan \/ y.nan THEN NaN ELSE Number(Max(x.micro, y.micro))

\* 10^6 / Math.log(n) for n = 2, 3, ..., rounded; InvLogMicro[n - 1] is the entry of n
InvLogMicro ==
    <<1442695, 910239, 721348, 621335, 558111, 513898, 480898, 455120, 434294,
      417032, 402430, 389871, 378923, 369269, 360674, 352956, 345976, 339623,
      333808, 328459, 323515, 318929, 314658, 310667, 306928, 303413, 300102,
      296974, 294014, 291207, 288539, 286000, 283578, 281266, 279055, 276938,
      274908, 272958, 271085, 269283>>

(***************************************************************************)
(* tokenizeAndChunk                                                        *)
(***************************************************************************)
\* the copyright sign U+00A9, one character, written "(c)" here
KwCopyrightMark == <<"(c)">>
KwCopyright == <<"c", "o", "p", "y", "r", "i", "g", "h", "t">>
KwNavigation == <<"n", "a", "v", "i", "g", "a", "t", "i", "o", "n">>
KwMenu == <<"m", "e", "n", "u">>
KwContact == <<"c", "o", "n", "t", "a", "c", "t">>
KwEmail == <<"e", "m", "a", "i", "l">>
KwPhone == <<"p", "h", "o", "n", "e">>

ContextLengthLimit == 100

detectContentContextMutant(content) ==
    LET lowerContent == toLowerCase(content)
    IN  IF includes(lowerContent, KwCopyrightMark) \/ includes(lowerContent, KwCopyright)
        THEN "footer"
        ELSE IF includes(lowerContent, KwNavigation) \/ includes(lowerContent, KwMenu)
        THEN "navigation"
        ELSE IF includes(lowerContent, KwContact) \/ includes(lowerContent, KwEmail)
                \/ includes(lowerContent, KwPhone)
        THEN "contact"
        ELSE IF Len(lowerContent) < ContextLengthLimit
        THEN "heading"
        ELSE "content"
detectContentContext(content) ==
    LET lowerContent == toLowerCase(content)
    IN  IF includes(lowerContent, KwCopyrightMark) \/ includes(lowerContent, KwCopyright)
        THEN "footer"
        ELSE IF includes(lowerContent, KwNavigation) \/ includes(lowerContent, KwMenu)
        THEN "navigation"
        ELSE IF Len(lowerContent) < ContextLengthLimit
        THEN "heading"
        ELSE IF includes(lowerContent, KwContact) \/ includes(lowerContent, KwEmail)
                \/ includes(lowerContent, KwPhone)
        THEN "contact"
        ELSE "content"

\* const words = content.split(/\s+/).filter(word => word.length > 0)
SplitWords(content) == FilterLonger(SplitWhitespace(content), 0)

\* Math.floor(maxTokensPerChunk * 0.75)
WordsPerChunkMutant(m) == m \div 2
WordsPerChunk(m) == (3 * m) \div 4

\* words.slice(i, i + wordsPerChunk), i counted from 0
SliceWordsMutant(ws, from, n) == SubSeq(ws, from + 1, Min(from + n, Len(ws)) - 1)
SliceWords(ws, from, n) == SubSeq(ws, from + 1, Min(from + n, Len(ws)))

\* Math.ceil(chunkContent.length / 4)
EstimatedTokensMutant(chunkContent) == Len(chunkContent) \div 4
EstimatedTokens(chunkContent) == (Len(chunkContent) + 3) \div 4

\* chunkIndex: chunks.length + 1
NextChunkIndexMutant(chs, from) == from + 1
NextChunkIndex(chs, from) == Len(chs) + 1

\* the object pushed by one loop iteration
NewChunk(chs, from, chunkContent, m) ==
    [content         |-> trim(chunkContent),
     tokens          |-> Min(EstimatedTokens(chunkContent), m),
     chunkIndex      |-> NextChunkIndex(chs, from),
     htmlTagContext  |-> detectContentContext(chunkContent),
     relevanceScore  |-> Zero]

(***************************************************************************)
(* Regular expressions built from a query word                             *)
(***************************************************************************)
\* new RegExp(word, 'g') and new RegExp(`\\b${word}\\b`, 'g') throw a SyntaxError
\* when the pattern is not well formed.  Of the characters of the model "(" and
\* "." are metacharacters; "." is well formed anywhere, and no ")" exists to
\* close the group that "(" opens.
RegExpThrows(word) == \E k \in 1..Len(word) : word[k] = "("

\* \b at position p of s (between s[p-1] and s[p]); outside s counts as non-word
WordBoundary(s, p) ==
    LET before == p > 1 /\ IsWordChar(s[p - 1])
        after  == p <= Len(s) /\ IsWordChar(s[p])
    IN  before # after

\* one character of the pattern against one character of the text: "." matches
\* every character but a line terminator, every other character of the model
\* (letters, digits) matches itself
PatternCharMatches(patternChar, c) ==
    IF patternChar = "." THEN c # "\n" ELSE patternChar = c

\* does the pattern (the word, optionally between two \b) match s at p
MatchesAt(s, w, p, bounded) ==
    /\ p + Len(w) - 1 <= Len(s)
    /\ \A j \in 1..Len(w) : PatternCharMatches(w[j], s[p + j - 1])
    /\ bounded => WordBoundary(s, p) /\ WordBoundary(s, p + Len(w))

\* (s.match(new RegExp(pattern, 'g')) || []).length: the matches are found from
\* left to right and do not overlap
RECURSIVE MatchCount(_, _, _, _)
MatchCount(s, w, p, bounded) ==
    IF p + Len(w) - 1 > Len(s) THEN 0
    ELSE IF MatchesAt(s, w, p, bounded)
         THEN 1 + MatchCount(s, w, p + Len(w), bounded)
         ELSE MatchCount(s, w, p + 1, bounded)

(***************************************************************************)
(* calculateRelevanceScore                                                 *)
(***************************************************************************)
BoostPrefix == 200

\* what one query word adds to score, in halves
StrictWordHalves(contentLower, word) ==
    LET exactMatches   == MatchCount(contentLower, word, 1, TRUE)
        partialMatches == MatchCount(contentLower, word, 1, FALSE) - exactMatches
        boost == IF includes(substring0(contentLower, BoostPrefix), word) THEN 1 ELSE 0
    IN  4 * exactMatches + partialMatches + 2 * boost

RECURSIVE SumStrictHalves(_, _)
SumStrictHalves(contentLower, queryWords) ==
    IF queryWords = <<>> THEN 0
    ELSE StrictWordHalves(contentLower, Head(queryWords))
         + SumStrictHalves(contentLower, Tail(queryWords))

\* score / (Math.log(content.length + 1) * queryWords.length); 0 / 0 is NaN.
\* The numerator is 0 whenever the denominator is 0 (no query word was summed).
NormalizeStrict(halves, length, n) ==
    IF n = 0 \/ length = 0
    THEN NaN
    ELSE Number((halves * InvLogMicro[length]) \div (2 * n))

calculateRelevanceScore(content, queryWords) ==
    LET contentLower == toLowerCase(content)
        halves == SumStrictHalves(contentLower, queryWords)
    IN  MathMinOne(NormalizeStrict(halves, Len(content), Len(queryWords)))

(***************************************************************************)
(* calculateLenientRelevanceScore                                          *)
(***************************************************************************)
VariationMinLength == 2

wordVariations(word) ==
    <<word \o <<"s">>,
      word \o <<"i", "n", "g">>,
      word \o <<"e", "d">>,
      sliceDropLast(word, 1),
      sliceDropLast(word, 2)>>

\* what one query word adds to score, in tenths
LenientWordTenths(contentLower, word) ==
    LET whole == IF includes(contentLower, word) THEN 10 ELSE 0
        vs == wordVariations(word)
        variation == IF \E k \in 1..Len(vs) :
                           Len(vs[k]) > VariationMinLength /\ includes(contentLower, vs[k])
                     THEN 3 ELSE 0
    IN  whole + variation

RECURSIVE SumLenientTenths(_, _)
SumLenientTenths(contentLower, queryWords) ==
    IF queryWords = <<>> THEN 0
    ELSE LenientWordTenths(contentLower, Head(queryWords))
         + SumLenientTenths(contentLower, Tail(queryWords))

\* score / queryWords.length; 0 / 0 is NaN
NormalizeLenient(tenths, n) ==
    IF n = 0 THEN NaN ELSE Number((tenths * 100 * 1000) \div n)

\* /[a-z]/.test(contentLower) ? 0.1 : 0
LenientFloor(contentLower) ==
    IF HasLowerLetter(contentLower) THEN Number(100 * 1000) ELSE Zero

calculateLenientRelevanceScore(content, queryWords) ==
    LET contentLower == toLowerCase(content)
        tenths == SumLenientTenths(contentLower, queryWords)
    IN  MathMax(NormalizeLenient(tenths, Len(queryWords)), LenientFloor(contentLower))

(***************************************************************************)
(* performSemanticSearch                                                   *)
(***************************************************************************)
\* query.toLowerCase().split(/\s+/).filter(word => word.length > 2)
QueryWordMinLength == 2

QueryWords(query) == FilterLonger(SplitWhitespace(toLowerCase(query)), QueryWordMinLength)

\* chunks.filter(chunk => chunk.relevanceScore > 0)
RECURSIVE FilterPositive(_)
FilterPositive(chs) ==
    IF chs = <<>> THEN <<>>
    ELSE IF Positive(Head(chs).relevanceScore)
         THEN <<Head(chs)>> \o FilterPositive(Tail(chs))
         ELSE FilterPositive(Tail(chs))

\* the comparators (a, b) => b.key - a.key: a negative result puts a first
KeyBeforeMutant(a, b) == a < b
KeyBefore(a, b) == a > b

\* Array.prototype.sort with that comparator on keys[k], the key of seq[k]: the
\* sort is stable, elements with equal keys keep their order
SortByKey(seq, keys) ==
    LET n == Len(seq)
        pos(k) == 1 + Cardinality({j \in 1..n : KeyBefore(keys[j], keys[k])})
                    + Cardinality({j \in 1..(k - 1) :
                                      /\ ~KeyBefore(keys[j], keys[k])
                                      /\ ~KeyBefore(keys[k], keys[j])})
    IN  [q \in 1..n |-> seq[CHOOSE k \in 1..n : pos(k) = q]]

\* .slice(0, n)
SliceFirst(seq, n) == SubSeq(seq, 1, Min(n, Len(seq)))

\* .filter(score > 0).sort((a, b) => b.relevanceScore - a.relevanceScore).slice(0, maxResults)
SelectTop(chs, n) ==
    LET kept == FilterPositive(chs)
    IN  SliceFirst(SortByKey(kept, [k \in 1..Len(kept) |-> kept[k].relevanceScore.micro]), n)

\* for (const chunk of chunks) chunk.relevanceScore = calculateRelevanceScore(...)
ScoreStrict(chs, queryWords) ==
    [k \in 1..Len(chs) |->
        [chs[k] EXCEPT !.relevanceScore = calculateRelevanceScore(chs[k].content, queryWords)]]

\* for (const chunk of chunks) chunk.relevanceScore = calculateLenientRelevanceScore(...)
ScoreLenient(chs, queryWords) ==
    [k \in 1..Len(chs) |->
        [chs[k] EXCEPT !.relevanceScore =
            calculateLenientRelevanceScore(chs[k].content, queryWords)]]

\* if (sortedChunks.length === 0 && chunks.length > 0)
NothingSelectedMutant(sortedChunks, chs) == Len(chs) > 0
NothingSelected(sortedChunks, chs) == Len(sortedChunks) = 0 /\ Len(chs) > 0

\* chunks.sort((a, b) => b.content.length - a.content.length), in place
SortByLengthMutant(chs) == chs
SortByLength(chs) == SortByKey(chs, [k \in 1..Len(chs) |-> Len(chs[k].content)])

\* Math.min(maxResults, 3)
LastResortLimit == 3

LastResortCountMutant(n) == n
LastResortCount(n) == Min(n, LastResortLimit)

\* .map(chunk => ({ ...chunk, relevanceScore: 0.1 }))
ForceScore(chs) ==
    [k \in 1..Len(chs) |-> [chs[k] EXCEPT !.relevanceScore = Number(100 * 1000)]]

\* calculateRelevanceScore is first called for chunks[0] and builds a RegExp from
\* every query word in turn
SearchThrowsMutant(chs, queryWords) ==
    \E k \in 1..Len(queryWords) : RegExpThrows(queryWords[k])
SearchThrows(chs, queryWords) ==
    Len(chs) > 0 /\ \E k \in 1..Len(queryWords) : RegExpThrows(queryWords[k])

\* performSemanticSearch when no RegExp constructor throws: the chunks array as the
\* call leaves it, the returned chunks, and the selection rule that produced them
performSemanticSearch(chs, query, n) ==
    LET queryWords == QueryWords(query)
        strict     == ScoreStrict(chs, queryWords)
        first      == SelectTop(strict, n)
        lenient    == ScoreLenient(chs, queryWords)
        second     == SelectTop(lenient, n)
        bySize     == SortByLength(lenient)
    IN  IF ~NothingSelected(first, chs)
        THEN [chunks |-> strict, relevantChunks |-> first,
              tier |-> IF Len(chs) = 0 THEN "none" ELSE "strict"]
        ELSE IF ~NothingSelected(second, chs)
        THEN [chunks |-> lenient, relevantChunks |-> second, tier |-> "lenient"]
        ELSE [chunks |-> bySize,
              relevantChunks |-> ForceScore(SliceFirst(bySize, LastResortCount(n))),
              tier |-> "longest"]

(***************************************************************************)
(* Inputs                                                                  *)
(***************************************************************************)
Vocabulary == {<<"A", "b", "a", "b">>, <<"1">>, <<"1", "1", "1">>}

WordLists == UNION {[1..n -> Vocabulary] : n \in 0..MaxWords}

RECURSIVE JoinRagged(_)
JoinRagged(ss) ==
    IF ss = <<>> THEN <<>>
    ELSE Head(ss) \o <<" ", " ">> \o JoinRagged(Tail(ss))

\* a text of single spaces, as parseAndCleanHTML leaves it, or one with a leading
\* newline, double spaces and trailing spaces
\* one word that is longer than four times the largest maxTokensPerChunk
LongWord == <<"1", "1", "1", "1", "1", "1", "1", "1", "1", "1", "1", "1", "1">>

Texts ==
    {JoinSpace(ws) : ws \in WordLists} \cup {<<"\n">> \o JoinRagged(ws) : ws \in WordLists}
        \cup {LongWord, JoinSpace(<<LongWord, <<"1">> >>)}

Queries ==
    { <<"a", "b", "a">>,
      <<"a", "b", " ", "1">>,
      <<"A", "B", "A", "B", " ", " ", "b", "b", "b">>,
      <<"b", "b", "b">>,
      <<"(", "a", "b">>,
      <<"1", "1", "1", "1">>,
      <<"a", "b", "a", "a">>,
      <<"a", "b", "a", "b">>,
      <<"1", ".", "1">> }

(***************************************************************************)
(* The runs of the serve handler before any request                        *)
(***************************************************************************)
\* let content = ''
NoBody == [text |-> <<>>, pad |-> 0]

\* the search identifiers of the two runs
SearchIds == {"s1", "s2"}

\* no row of table searches for an identifier
NoRow ==
    [present |-> FALSE, status |-> "", total_chunks |-> 0, results_count |-> 0,
     processing_time_ms |-> "null", error_message |-> ""]

\* the locals of a run before its request and its responses have arrived
NoRequest == [valid |-> FALSE, searchQuery |-> <<>>, maxResults |-> 0, maxTokensPerChunk |-> 0]

NoResponse == [reached |-> FALSE, ok |-> FALSE, contentType |-> <<>>, body |-> NoBody]

IdleRun ==
    [pc |-> "idle", bodyUsed |-> FALSE, request |-> NoRequest, sent |-> <<>>,
     primary |-> NoResponse, secondary |-> NoResponse, content |-> NoBody,
     cleanedContent |-> <<>>, chunks |-> <<>>, totalChunks |-> 0,
     relevantChunks |-> <<>>, tier |-> "none", error |-> "", response |-> 0]

ServeIdle ==
    /\ run = [id \in SearchIds |-> IdleRun]
    /\ searches = [id \in SearchIds |-> NoRow]
    /\ searchResults = <<>>
    /\ statusWrites = [id \in SearchIds |-> <<>>]

\* currentResult is null
NullResult == [id |-> 0, status |-> "null"]

\* the hook before any call: status 'idle', no result, no history; call is the
\* position of the performSearch call, poll that of the chain of pollForResults,
\* cleared records that clearResults ran after the last performSearch call
IdleHook ==
    [status |-> "idle", currentResult |-> NullResult, searchHistory |-> <<>>,
     call |-> "none", searches |-> 0, searchId |-> 0,
     attempts |-> 0, poll |-> "none", cleared |-> FALSE]

HookIdle == hook = IdleHook

\* detectContentContext before any call
ContextIdle ==
    /\ contextContent = <<>>
    /\ htmlTagContext = ""

(***************************************************************************)
(* The run of one request                                                  *)
(***************************************************************************)
Init ==
    /\ cleanedContent \in Texts
    /\ maxTokensPerChunk \in 1..MaxTokensBound
    /\ searchQuery \in Queries
    /\ maxResults \in 1..MaxResultsBound
    /\ pc = "tokenize"
    /\ words = <<>>
    /\ i = 0
    /\ chunks = <<>>
    /\ relevantChunks = <<>>
    /\ tier = "none"
    /\ errorMessage = ""
    /\ htmlContent = <<>>
    /\ recleaned = <<>>
    /\ ServeIdle
    /\ ContextIdle
    /\ HookIdle

\* tokenizeAndChunk, up to the loop
TokenizeAndChunk ==
    /\ pc = "tokenize"
    /\ words' = SplitWords(cleanedContent)
    /\ i' = 0
    /\ chunks' = <<>>
    /\ pc' = "chunkLoop"
    /\ UNCHANGED <<cleanedContent, maxTokensPerChunk, searchQuery, maxResults,
                   relevantChunks, tier, errorMessage, otherVars>>

\* one iteration of for (let i = 0; i < words.length; i += wordsPerChunk)
ChunkLoop ==
    /\ pc = "chunkLoop"
    /\ i < Len(words)
    /\ LET wordsPerChunk == WordsPerChunk(maxTokensPerChunk)
           chunkContent  == JoinSpace(SliceWords(words, i, wordsPerChunk))
       IN  /\ chunks' = IF Len(trim(chunkContent)) > 0
                        THEN Append(chunks, NewChunk(chunks, i, chunkContent, maxTokensPerChunk))
                        ELSE chunks
           /\ i' = i + wordsPerChunk
    /\ UNCHANGED <<cleanedContent, maxTokensPerChunk, searchQuery, maxResults, pc,
                   words, relevantChunks, tier, errorMessage, otherVars>>

\* the loop ends and tokenizeAndChunk returns chunks
ChunkReturn ==
    /\ pc = "chunkLoop"
    /\ ~(i < Len(words))
    /\ pc' = "search"
    /\ UNCHANGED <<cleanedContent, maxTokensPerChunk, searchQuery, maxResults,
                   words, i, chunks, relevantChunks, tier, errorMessage, otherVars>>

\* performSemanticSearch returns
PerformSemanticSearch ==
    /\ pc = "search"
    /\ LET queryWords == QueryWords(searchQuery)
           result     == performSemanticSearch(chunks, searchQuery, maxResults)
       IN  /\ ~SearchThrows(chunks, queryWords)
           /\ chunks' = result.chunks
           /\ relevantChunks' = result.relevantChunks
           /\ tier' = result.tier
    /\ pc' = "save"
    /\ UNCHANGED <<cleanedContent, maxTokensPerChunk, searchQuery, maxResults,
                   words, i, errorMessage, otherVars>>

\* a RegExp constructor throws inside calculateRelevanceScore; serve catches it
PerformSemanticSearchThrows ==
    /\ pc = "search"
    /\ SearchThrows(chunks, QueryWords(searchQuery))
    /\ pc' = "catch"
    /\ errorMessage' = "Invalid regular expression"
    /\ UNCHANGED <<cleanedContent, maxTokensPerChunk, searchQuery, maxResults,
                   words, i, chunks, relevantChunks, tier, otherVars>>

Next ==
    \/ TokenizeAndChunk
    \/ ChunkLoop
    \/ ChunkReturn
    \/ PerformSemanticSearch
    \/ PerformSemanticSearchThrows

Spec == Init /\ [][Next]_vars

(***************************************************************************)
(* The markup reducer applied to a page, and to its own output             *)
(***************************************************************************)
\* pages are built from at most MaxFragments pieces of one family
ScriptFragments ==
    { <<"a">>, <<"b">>, <<"<", "/", "P", ">">>, <<"<", "s", "c", "r", "i", "p", "t", ">">>, <<"<", "/", "s", "c", "r", "i", "p", "t", ">">>, <<"<", "S", "T", "Y", "L", "E", ">">>, <<"<", "/", "s", "t", "y", "l", "e", ">">> }

EntityFragments ==
    { <<"a">>, <<"<", "i", ">">>, <<"&", "l", "t", ";">>, <<"&", "g", "t", ";">>, <<"&", "a", "m", "p", ";">>, <<"a", "m", "p", ";">>, <<"&", "q", "u", "o", "t", ";">>, <<"&", "n", "b", "s", "p", ";">> }

ChromeFragments ==
    { <<"a">>, <<" ">>, <<"\n">>, <<"<", "n", "a", "v", ">">>, <<"<", "/", "n", "a", "v", ">">>, <<"<", "!", "-", "-">>, <<"-", "-", ">">> }

RECURSIVE Concat(_)
Concat(ss) == IF ss = <<>> THEN <<>> ELSE Head(ss) \o Concat(Tail(ss))

FragmentLists(family) == UNION {[1..n -> family] : n \in 0..MaxFragments}

Htmls ==
    {Concat(fs) : fs \in FragmentLists(ScriptFragments) \cup FragmentLists(EntityFragments)
                          \cup FragmentLists(ChromeFragments)}

\* the chunker and ranker variables while the reducer alone is looked at
RankerIdle ==
    /\ maxTokensPerChunk = 1
    /\ searchQuery = <<>>
    /\ maxResults = 1
    /\ words = <<>>
    /\ i = 0
    /\ chunks = <<>>
    /\ relevantChunks = <<>>
    /\ tier = "none"
    /\ errorMessage = ""

ReducerInit ==
    /\ htmlContent \in Htmls
    /\ cleanedContent = <<>>
    /\ recleaned = <<>>
    /\ pc = "parse"
    /\ RankerIdle
    /\ ServeIdle
    /\ ContextIdle
    /\ HookIdle

\* const cleanedContent = parseAndCleanHTML(htmlContent)
ParseAndCleanHTML ==
    /\ pc = "parse"
    /\ cleanedContent' = parseAndCleanHTML(htmlContent)
    /\ pc' = "parsed"
    /\ UNCHANGED <<htmlContent, recleaned, maxTokensPerChunk, searchQuery, maxResults,
                   words, i, chunks, relevantChunks, tier, errorMessage, serveVars, contextVars, hook>>

\* parseAndCleanHTML applied to its own output
ParseAgain ==
    /\ pc = "parsed"
    /\ recleaned' = parseAndCleanHTML(cleanedContent)
    /\ pc' = "reparsed"
    /\ UNCHANGED <<htmlContent, cleanedContent, maxTokensPerChunk, searchQuery, maxResults,
                   words, i, chunks, relevantChunks, tier, errorMessage, serveVars, contextVars, hook>>

ReducerNext ==
    \/ ParseAndCleanHTML
    \/ ParseAgain

ReducerSpec == ReducerInit /\ [][ReducerNext]_vars

(***************************************************************************)
(* detectContentContext applied to one chunk content                       *)
(***************************************************************************)
\* chunk contents are built from at most MaxKeywords pieces, as they are or
\* filled up with letters to one character below the length limit and to the limit
ContextFragments ==
    { <<"C", "o", "p", "y", "r", "i", "g", "h", "t", " ">>, <<"(c)", " ">>, <<"M", "e", "n", "u", " ">>, <<"n", "a", "v", "i", "g", "a", "t", "i", "o", "n", " ">>, <<"c", "o", "n", "t", "a", "c", "t", " ">>, <<"e", "m", "a", "i", "l", " ">>, <<"p", "h", "o", "n", "e", " ">>, <<"a", "b", " ">> }

ContextLengths == {0, ContextLengthLimit - 1, ContextLengthLimit}

PadTo(s, n) == s \o [k \in 1..(n - Len(s)) |-> "a"]

ContextContents ==
    {PadTo(Concat(fs), n) : fs \in UNION {[1..k -> ContextFragments] : k \in 0..MaxKeywords},
                            n \in ContextLengths}

ContextInit ==
    /\ contextContent \in ContextContents
    /\ htmlTagContext = ""
    /\ pc = "detect"
    /\ htmlContent = <<>>
    /\ cleanedContent = <<>>
    /\ recleaned = <<>>
    /\ RankerIdle
    /\ ServeIdle
    /\ HookIdle

\* htmlTagContext: detectContentContext(chunkContent)
DetectContentContext ==
    /\ pc = "detect"
    /\ htmlTagContext' = detectContentContext(contextContent)
    /\ pc' = "detected"
    /\ UNCHANGED <<contextContent, htmlContent, cleanedContent, recleaned, maxTokensPerChunk,
                   searchQuery, maxResults, words, i, chunks, relevantChunks, tier,
                   errorMessage, serveVars, hook>>

ContextNext == DetectContentContext

ContextSpec == ContextInit /\ [][ContextNext]_vars

(***************************************************************************)
(* The hook useSearch: performSearch, pollForResults, clearResults         *)
(***************************************************************************)
\* const maxAttempts = 30
MaxAttempts == 30

\* what the select of poll can return as search.status, and its failure
RecordStatuses == {"pending", "processing", "completed", "failed"}

ReadOutcomes == RecordStatuses \cup {"error"}

\* the SearchResult built from a record read by poll
ResultOf(searchId, recordStatus) == [id |-> searchId, status |-> recordStatus]

\* if (attempts < maxAttempts && search.status === 'processing')
PollAgain(n, recordStatus) == n < MaxAttempts /\ recordStatus = "processing"

\* useState('idle'), useState(null), useState([]); no call, no poll chain
HookInit ==
    /\ hook = IdleHook
    /\ pc = "hook"
    /\ htmlContent = <<>>
    /\ cleanedContent = <<>>
    /\ recleaned = <<>>
    /\ RankerIdle
    /\ ServeIdle
    /\ ContextIdle

hookFrame == <<htmlContent, recleaned, cleanedContent, maxTokensPerChunk, searchQuery,
               maxResults, pc, words, i, chunks, relevantChunks, tier, errorMessage,
               serveVars, contextVars>>

\* performSearch is called: an invalid URL returns at once, a valid one sets
\* 'validating' and awaits supabase.auth.getUser().  One call at a time, and at
\* most MaxSearches calls.
PerformSearch ==
    /\ hook.call \in {"none", "returned"}
    /\ hook.poll \in {"none", "stopped"}
    /\ hook.searches < MaxSearches
    /\ \E validUrl \in BOOLEAN :
          hook' = IF ~validUrl THEN hook
                  ELSE [hook EXCEPT !.status = "validating", !.call = "getUser",
                                    !.poll = "none", !.attempts = 0, !.cleared = FALSE]
    /\ UNCHANGED hookFrame

\* getUser answers: without a user the catch block sets 'error'
GetUser ==
    /\ hook.call = "getUser"
    /\ \E user \in BOOLEAN :
          hook' = IF user THEN [hook EXCEPT !.call = "insert"]
                  ELSE [hook EXCEPT !.status = "error", !.call = "returned"]
    /\ UNCHANGED hookFrame

\* the insert of the search record answers: setCurrentResult, setStatus('processing')
\* and the invocation of the edge function, or the catch block
InsertRecord ==
    /\ hook.call = "insert"
    /\ \E inserted \in BOOLEAN :
          hook' = IF inserted
                  THEN [hook EXCEPT !.searches = @ + 1,
                                    !.searchId = hook.searches + 1,
                                    !.currentResult = ResultOf(hook.searches + 1, "pending"),
                                    !.status = "processing",
                                    !.call = "invoke"]
                  ELSE [hook EXCEPT !.status = "error", !.call = "returned"]
    /\ UNCHANGED hookFrame

\* functions.invoke answers: an error goes to the catch block, otherwise
\* pollForResults starts the chain with its first poll (attempts++ and the select)
InvokeReturns ==
    /\ hook.call = "invoke"
    /\ \E invoked \in BOOLEAN :
          hook' = IF invoked
                  THEN [hook EXCEPT !.attempts = 1, !.poll = "reading", !.call = "returned"]
                  ELSE [hook EXCEPT !.status = "error", !.call = "returned"]
    /\ UNCHANGED hookFrame

\* the select of poll answers
PollRead ==
    /\ hook.poll = "reading"
    /\ \E outcome \in ReadOutcomes :
          hook' = IF outcome = "error"
                  THEN [hook EXCEPT !.status = "error", !.poll = "stopped"]
                  ELSE IF outcome = "completed"
                  THEN [hook EXCEPT !.currentResult = ResultOf(hook.searchId, outcome),
                                    !.status = "completed",
                                    !.searchHistory = <<ResultOf(hook.searchId, outcome)>> \o @,
                                    !.poll = "stopped"]
                  ELSE IF outcome = "failed"
                  THEN [hook EXCEPT !.currentResult = ResultOf(hook.searchId, outcome),
                                    !.status = "error",
                                    !.poll = "stopped"]
                  ELSE IF PollAgain(hook.attempts, outcome)
                  THEN [hook EXCEPT !.currentResult = ResultOf(hook.searchId, outcome),
                                    !.poll = "scheduled"]
                  ELSE IF hook.attempts >= MaxAttempts
                  THEN [hook EXCEPT !.currentResult = ResultOf(hook.searchId, outcome),
                                    !.status = "error",
                                    !.poll = "stopped"]
                  ELSE [hook EXCEPT !.currentResult = ResultOf(hook.searchId, outcome),
                                    !.poll = "stopped"]
    /\ UNCHANGED hookFrame

\* the timer of setTimeout(poll, 1000) fires: attempts++ and the select
PollTimer ==
    /\ hook.poll = "scheduled"
    /\ hook' = [hook EXCEPT !.attempts = @ + 1, !.poll = "reading"]
    /\ UNCHANGED hookFrame

\* clearResults: setCurrentResult(null), setStatus('idle')
ClearResults ==
    /\ hook' = [hook EXCEPT !.currentResult = NullResult, !.status = "idle",
                            !.cleared = TRUE]
    /\ UNCHANGED hookFrame

HookNext ==
    \/ PerformSearch
    \/ GetUser
    \/ InsertRecord
    \/ InvokeReturns
    \/ PollRead
    \/ PollTimer
    \/ ClearResults

HookSpec == HookInit /\ [][HookNext]_vars

(***************************************************************************)
(* The content fetcher fetchWebsiteContent                                 *)
(***************************************************************************)
\* A response body is the string text followed by pad spaces: its length is what
\* content.length reads, and a page of 500 characters stays a short sequence.
BodyLength(body) == Len(body.text) + body.pad

\* content.includes(lit) for a lit without spaces
BodyIncludes(body, lit) == includes(body.text, lit)

\* the string handed to parseAndCleanHTML; the reducer collapses a trailing run of
\* spaces of any length as it collapses one space
BodyString(body) == IF body.pad > 0 THEN body.text \o <<" ">> ELSE body.text

HtmlType == <<"t", "e", "x", "t", "/", "h", "t", "m", "l">>

\* if (!response.ok) throw ...; if (!contentType.includes('text/html')) throw ...
PrimaryRejectedMutant(response) == ~response.ok
PrimaryRejected(response) == ~response.ok \/ ~includes(response.contentType, HtmlType)

\* the message of the error fetchWebsiteContent throws for the primary response
PrimaryError(response) ==
    IF ~response.reached THEN "error sending request"
    ELSE IF ~response.ok THEN "Failed to fetch website"
    ELSE "Invalid content type"

ThinContentLimit == 500

\* if (content.length < 500 || !content.includes('<body'))
ThinContentMutant(content) == BodyLength(content) < ThinContentLimit
ThinContent(content) ==
    BodyLength(content) < ThinContentLimit \/ ~BodyIncludes(content, <<"<", "b", "o", "d", "y">>)

\* if (jinaContent.length > content.length)
PreferSecondaryMutant(jinaContent, content) == BodyLength(jinaContent) >= BodyLength(content)
PreferSecondary(jinaContent, content) == BodyLength(jinaContent) > BodyLength(content)

\* the content fetchWebsiteContent returns after the reader request
ContentAfterSecondary(content, jinaResponse) ==
    IF jinaResponse.reached /\ jinaResponse.ok /\ PreferSecondary(jinaResponse.body, content)
    THEN jinaResponse.body
    ELSE content

(***************************************************************************)
(* tokenizeAndChunk as one call                                            *)
(***************************************************************************)
\* the loop of tokenizeAndChunk from i = from on; it ends when wordsPerChunk >= 1
RECURSIVE ChunksFrom(_, _, _, _)
ChunksFrom(ws, m, from, chs) ==
    IF ~(from < Len(ws)) THEN chs
    ELSE LET chunkContent == JoinSpace(SliceWords(ws, from, WordsPerChunk(m)))
         IN  ChunksFrom(ws, m, from + WordsPerChunk(m),
                        IF Len(trim(chunkContent)) > 0
                        THEN Append(chs, NewChunk(chs, from, chunkContent, m))
                        ELSE chs)

tokenizeAndChunk(content, m) == ChunksFrom(SplitWords(content), m, 0, <<>>)

\* the loop of tokenizeAndChunk ends
ChunkerReturns(content, m) == WordsPerChunk(m) >= 1 \/ SplitWords(content) = <<>>

(***************************************************************************)
(* The status store and the result sink                                    *)
(***************************************************************************)
\* the row the hook inserts: status 'pending', the other columns at their defaults
PendingRow ==
    [present |-> TRUE, status |-> "pending", total_chunks |-> 0, results_count |-> 0,
     processing_time_ms |-> "null", error_message |-> ""]

\* supabase.from('searches').update(updateData).eq('id', searchId)
UpdateSearchMutant(table, searchId, updateData) ==
    [id \in DOMAIN table |->
        IF table[id].present
        THEN [f \in DOMAIN table[id] |->
                IF f \in DOMAIN updateData THEN updateData[f] ELSE table[id][f]]
        ELSE table[id]]
UpdateSearch(table, searchId, updateData) ==
    [id \in DOMAIN table |->
        IF id = searchId /\ table[id].present
        THEN [f \in DOMAIN table[id] |->
                IF f \in DOMAIN updateData THEN updateData[f] ELSE table[id][f]]
        ELSE table[id]]

\* updateSearchStatus(searchId, 'processing'): updateData = { status }
StatusOnlyMutant(status) == [status |-> "completed"]
StatusOnly(status) == [status |-> status]

\* updateSearchStatus(searchId, 'completed', processingTime, resultsCount)
StatusWithCountMutant(status, resultsCount) ==
    [status |-> status, processing_time_ms |-> "measured", results_count |-> 0]
StatusWithCount(status, resultsCount) ==
    [status |-> status, processing_time_ms |-> "measured", results_count |-> resultsCount]

\* updateSearchStatus(searchId, 'failed', processingTime, 0, error.message)
StatusWithError(status, resultsCount, message) ==
    IF message # ""
    THEN [status |-> status, processing_time_ms |-> "measured",
          results_count |-> resultsCount, error_message |-> message]
    ELSE StatusWithCount(status, resultsCount)

\* chunks.map((chunk, index) => ({ search_id, chunk_content, ... }))
ResultRows(searchId, chs) ==
    [k \in 1..Len(chs) |->
        [search_id        |-> searchId,
         chunk_content    |-> chs[k].content,
         chunk_tokens     |-> chs[k].tokens,
         relevance_score  |-> chs[k].relevanceScore,
         chunk_index      |-> chs[k].chunkIndex,
         html_tag_context |-> chs[k].htmlTagContext]]

\* req.clone() throws a TypeError when the body of req was read already
CloneThrows(bodyUsed) == bodyUsed

(***************************************************************************)
(* Requests, pages and responses                                           *)
(***************************************************************************)
\* the bodies of the POST requests; valid is FALSE for a body that is not JSON
ServeRequests ==
    { [valid |-> TRUE, searchQuery |-> <<"a", "b", "a", "b">>, maxResults |-> 10, maxTokensPerChunk |-> 500],
      [valid |-> TRUE, searchQuery |-> <<"(", "a", "b">>, maxResults |-> 10, maxTokensPerChunk |-> 500],
      [valid |-> TRUE, searchQuery |-> <<"b", "b", "b">>, maxResults |-> 2, maxTokensPerChunk |-> 2],
      [valid |-> FALSE, searchQuery |-> <<>>, maxResults |-> 10, maxTokensPerChunk |-> 500] }

\* a short page without text, a full page, a long page without <body, and a full
\* page without text
Pages ==
    { [text |-> <<"<", "b", "o", "d", "y", ">", "<", "/", "b", "o", "d", "y", ">">>, pad |-> 0],
      [text |-> <<"<", "b", "o", "d", "y", ">", "A", "b", "a", "b", "<", "/", "p", ">", "a", "b", " ", "1", "<", "/", "b", "o", "d", "y", ">">>, pad |-> 500],
      [text |-> <<"<", "p", ">", "A", "b", "a", "b", "<", "/", "p", ">">>, pad |-> 500],
      [text |-> <<"<", "b", "o", "d", "y", ">", " ", "<", "/", "b", "o", "d", "y", ">">>, pad |-> 500] }

\* what the reader service returns: shorter than every page, as long as the long
\* page without <body, and longer than every page
ReaderTexts ==
    { [text |-> <<"1", " ", "A", "b", "a", "b">>, pad |-> 0],
      [text |-> <<"1", "1", "1", " ", "A", "b", "a", "b", " ", "1">>, pad |-> 501],
      [text |-> <<"A", "b", "a", "b", " ", "1", "1", "1">>, pad |-> 600] }

\* fetch(url) rejects, or resolves with a status, a content type and a body
PrimaryResponses ==
    { NoResponse,
      [reached |-> TRUE, ok |-> FALSE, contentType |-> <<"t", "e", "x", "t", "/", "h", "t", "m", "l">>, body |-> NoBody],
      [reached |-> TRUE, ok |-> TRUE, contentType |-> <<"a", "p", "p", "l", "i", "c", "a", "t", "i", "o", "n", "/", "j", "s", "o", "n">>, body |-> NoBody] }
    \cup { [reached |-> TRUE, ok |-> TRUE, contentType |-> <<"t", "e", "x", "t", "/", "h", "t", "m", "l", ";", " ", "c", "h", "a", "r", "s", "e", "t", "=", "u", "t", "f", "-", "8">>,
            body |-> page] : page \in Pages }

\* fetch of the reader service rejects, or resolves with a status and a body
SecondaryResponses ==
    { NoResponse,
      [reached |-> TRUE, ok |-> FALSE, contentType |-> <<"t", "e", "x", "t", "/", "p", "l", "a", "i", "n">>, body |-> NoBody] }
    \cup { [reached |-> TRUE, ok |-> TRUE, contentType |-> <<"t", "e", "x", "t", "/", "p", "l", "a", "i", "n">>, body |-> text] :
            text \in ReaderTexts }

(***************************************************************************)
(* The hook's insert and the serve handler, one run per search identifier  *)
(***************************************************************************)
ServeInit ==
    /\ ServeIdle
    /\ ContextIdle
    /\ HookIdle
    /\ RankerIdle
    /\ htmlContent = <<>>
    /\ cleanedContent = <<>>
    /\ recleaned = <<>>
    /\ pc = "serve"

pipelineVars == <<htmlContent, recleaned, cleanedContent, maxTokensPerChunk, searchQuery,
                  maxResults, pc, words, i, chunks, relevantChunks, tier, errorMessage,
                  contextVars, hook>>

\* useSearch.ts performSearch: the search record is inserted with status 'pending'
InsertSearch(id) ==
    /\ run[id].pc = "idle"
    /\ searches' = [searches EXCEPT ![id] = PendingRow]
    /\ statusWrites' = [statusWrites EXCEPT ![id] = Append(@, "pending")]
    /\ run' = [run EXCEPT ![id].pc = "inserted"]
    /\ UNCHANGED <<searchResults, pipelineVars>>

\* serve: a CORS preflight is answered at once
Preflight(id) ==
    /\ run[id].pc = "inserted"
    /\ run' = [run EXCEPT ![id].pc = "preflighted"]
    /\ UNCHANGED <<searches, searchResults, statusWrites, pipelineVars>>

\* serve: await req.json() and the destructuring of the request
ServeRequest(id) ==
    /\ run[id].pc \in {"inserted", "preflighted"}
    /\ \E request \in ServeRequests :
          run' = [run EXCEPT ![id].bodyUsed = TRUE,
                             ![id].request = request,
                             ![id].pc = IF request.valid THEN "markProcessing" ELSE "catch",
                             ![id].error = IF request.valid THEN "" ELSE "Unexpected token"]
    /\ UNCHANGED <<searches, searchResults, statusWrites, pipelineVars>>

\* await updateSearchStatus(searchId, 'processing')
MarkProcessing(id) ==
    /\ run[id].pc = "markProcessing"
    /\ searches' = UpdateSearch(searches, id, StatusOnly("processing"))
    /\ statusWrites' = [s \in SearchIds |->
                          IF searches'[s].status # searches[s].status \/ s = id
                          THEN Append(statusWrites[s], searches'[s].status)
                          ELSE statusWrites[s]]
    /\ run' = [run EXCEPT ![id].pc = "fetchPrimary"]
    /\ UNCHANGED <<searchResults, pipelineVars>>

\* fetchWebsiteContent: the direct fetch and the checks of its response
FetchPrimary(id) ==
    /\ run[id].pc = "fetchPrimary"
    /\ \E response \in PrimaryResponses :
          run' = [run EXCEPT
                    ![id].sent = Append(@, "primary"),
                    ![id].primary = response,
                    ![id].content = IF ~response.reached \/ PrimaryRejected(response)
                                    THEN NoBody ELSE response.body,
                    ![id].error = IF ~response.reached \/ PrimaryRejected(response)
                                  THEN PrimaryError(response) ELSE "",
                    ![id].pc = IF ~response.reached \/ PrimaryRejected(response) THEN "catch"
                               ELSE IF ThinContent(response.body) THEN "fetchSecondary"
                               ELSE "process"]
    /\ UNCHANGED <<searches, searchResults, statusWrites, pipelineVars>>

\* fetchWebsiteContent: the request to the reader service and the choice of content
FetchSecondary(id) ==
    /\ run[id].pc = "fetchSecondary"
    /\ \E jinaResponse \in SecondaryResponses :
          run' = [run EXCEPT
                    ![id].sent = Append(@, "secondary"),
                    ![id].secondary = jinaResponse,
                    ![id].content = ContentAfterSecondary(@, jinaResponse),
                    ![id].pc = "process"]
    /\ UNCHANGED <<searches, searchResults, statusWrites, pipelineVars>>

\* serve, steps 3 and 4 on the chunks of the page: what performSemanticSearch
\* leaves and returns, or the error it throws
RankedOutcome(cleaned, allChunks, request) ==
    IF SearchThrows(allChunks, QueryWords(request.searchQuery))
    THEN [cleanedContent |-> cleaned, chunks |-> allChunks, relevantChunks |-> <<>>,
          tier |-> "none", error |-> "Invalid regular expression"]
    ELSE [cleanedContent |-> cleaned, error |-> ""]
            @@ performSemanticSearch(allChunks, request.searchQuery, request.maxResults)

\* serve, steps 2 to 4 on the cleaned text
ChunkedOutcome(cleaned, request) ==
    RankedOutcome(cleaned, tokenizeAndChunk(cleaned, request.maxTokensPerChunk), request)

\* serve, steps 2 to 4: parseAndCleanHTML, tokenizeAndChunk, performSemanticSearch
PipelineOutcome(content, request) ==
    ChunkedOutcome(parseAndCleanHTML(BodyString(content)), request)

\* parseAndCleanHTML, tokenizeAndChunk and performSemanticSearch, up to the first
\* await of saveSearchResults
Process(id) ==
    /\ run[id].pc = "process"
    /\ \E outcome \in {PipelineOutcome(run[id].content, run[id].request)} :
          /\ ChunkerReturns(outcome.cleanedContent, run[id].request.maxTokensPerChunk)
          /\ run' = [run EXCEPT ![id].cleanedContent = outcome.cleanedContent,
                                ![id].chunks = outcome.chunks,
                                ![id].totalChunks = Len(outcome.chunks),
                                ![id].relevantChunks = outcome.relevantChunks,
                                ![id].tier = outcome.tier,
                                ![id].error = outcome.error,
                                ![id].pc = IF outcome.error # "" THEN "catch"
                                           ELSE "saveTotal"]
    /\ UNCHANGED <<searches, searchResults, statusWrites, pipelineVars>>

\* saveSearchResults: update({ total_chunks: totalChunks }).eq('id', searchId)
SaveTotalChunks(id) ==
    /\ run[id].pc = "saveTotal"
    /\ searches' = UpdateSearch(searches, id, [total_chunks |-> run[id].totalChunks])
    /\ run' = [run EXCEPT ![id].pc = "insertResults"]
    /\ UNCHANGED <<searchResults, statusWrites, pipelineVars>>

\* saveSearchResults: from('search_results').insert(searchResults)
InsertResults(id) ==
    /\ run[id].pc = "insertResults"
    /\ searchResults' = searchResults \o ResultRows(id, run[id].relevantChunks)
    /\ run' = [run EXCEPT ![id].pc = "markCompleted"]
    /\ UNCHANGED <<searches, statusWrites, pipelineVars>>

\* await updateSearchStatus(searchId, 'completed', processingTime,
\* relevantChunks.length) and the success response
MarkCompleted(id) ==
    /\ run[id].pc = "markCompleted"
    /\ searches' = UpdateSearch(searches, id,
                                StatusWithCount("completed", Len(run[id].relevantChunks)))
    /\ statusWrites' = [s \in SearchIds |->
                          IF searches'[s].status # searches[s].status \/ s = id
                          THEN Append(statusWrites[s], searches'[s].status)
                          ELSE statusWrites[s]]
    /\ run' = [run EXCEPT ![id].pc = "responded", ![id].response = 200]
    /\ UNCHANGED <<searchResults, pipelineVars>>

\* the catch block of serve: req.clone().json() inside its own try, the update to
\* 'failed' when the clone could be read, and the error response
Catch(id) ==
    /\ run[id].pc = "catch"
    /\ IF CloneThrows(run[id].bodyUsed) \/ ~run[id].request.valid
       THEN UNCHANGED <<searches, statusWrites>>
       ELSE /\ searches' = UpdateSearch(searches, id,
                                        StatusWithError("failed", 0, run[id].error))
            /\ statusWrites' = [s \in SearchIds |->
                                  IF searches'[s].status # searches[s].status \/ s = id
                                  THEN Append(statusWrites[s], searches'[s].status)
                                  ELSE statusWrites[s]]
    /\ run' = [run EXCEPT ![id].pc = "responded", ![id].response = 500]
    /\ UNCHANGED <<searchResults, pipelineVars>>

ServeNext ==
    \E id \in SearchIds :
        \/ InsertSearch(id)
        \/ Preflight(id)
        \/ ServeRequest(id)
        \/ MarkProcessing(id)
        \/ FetchPrimary(id)
        \/ FetchSecondary(id)
        \/ Process(id)
        \/ SaveTotalChunks(id)
        \/ InsertResults(id)
        \/ MarkCompleted(id)
        \/ Catch(id)

ServeSpec == ServeInit /\ [][ServeNext]_vars

(***************************************************************************)
(* Properties                                                              *)
(***************************************************************************)
\* the words of the chunks' contents, joined with single spaces and split again
RejoinedWords(chs) == SplitWords(JoinSpace([k \in 1..Len(chs) |-> chs[k].content]))

PositiveCount(chs) == Cardinality({k \in 1..Len(chs) : Positive(chs[k].relevanceScore)})

ScoreOf(seq, k) == seq[k].relevanceScore.micro

Tenth == Number(100 * 1000)

InUnitInterval(x) == ~x.nan /\ 0 <= x.micro /\ x.micro <= 1000 * 1000

\* C1: for a text of at least one word and maxTokensPerChunk >= 2, the chunks the
\* chunker has emitted carry the chunkIndex values 1, 2, ..., n in output order,
\* and once it has returned n >= 1.
ChunkIndexContiguous ==
    (pc \in {"chunkLoop", "search"} /\ maxTokensPerChunk >= 2 /\ Len(words) >= 1)
        => /\ \A k \in 1..Len(chunks) : chunks[k].chunkIndex = k
           /\ pc = "search" => Len(chunks) >= 1

\* C1 witness: the chunker returned several chunks of two words each
ChunkIndexWitness ==
    /\ pc = "search"
    /\ maxTokensPerChunk >= 3
    /\ Len(chunks) >= 2
    /\ chunks[Len(chunks)].chunkIndex = Len(chunks)

\* C2: for maxTokensPerChunk >= 2, the contents of the returned chunks, joined in
\* order with single spaces and split on whitespace, are the whitespace-split
\* words of the input text.
ChunksReproduceWords ==
    (pc = "search" /\ maxTokensPerChunk >= 2)
        => RejoinedWords(chunks) = SplitWords(cleanedContent)

\* C2 witness: a text with irregular whitespace was cut into several chunks
ChunksReproduceWitness ==
    /\ pc = "search"
    /\ maxTokensPerChunk >= 2
    /\ Len(chunks) >= 2
    /\ Len(words) >= 3
    /\ cleanedContent # JoinSpace(words)
    /\ RejoinedWords(chunks) = words

\* C3: for every maxTokensPerChunk > 0 the derived wordsPerChunk is at least 1, so
\* every iteration of the partition loop advances through the words (and the
\* chunker terminates).
ChunkLoopAdvances ==
    (pc = "chunkLoop" /\ i < Len(words))
        => /\ WordsPerChunk(maxTokensPerChunk) >= 1
           /\ i + WordsPerChunk(maxTokensPerChunk) > i

\* C4 as stated: the output has min(maxResults, number of chunks with score > 0)
\* elements when the strict or the lenient pass selected it and min(maxResults, 3)
\* elements when the longest-chunk rule selected it.
OutputLengthAsStated ==
    pc = "save"
        => /\ tier \in {"strict", "lenient"}
                => Len(relevantChunks) = Min(maxResults, PositiveCount(chunks))
           /\ tier = "longest" => Len(relevantChunks) = Min(maxResults, 3)

\* C4 amended: as stated for the strict and the lenient pass; the longest-chunk
\* rule returns min(maxResults, 3, number of chunks) elements; no chunks, no output.
OutputLength ==
    pc = "save"
        => /\ tier \in {"strict", "lenient"}
                => Len(relevantChunks) = Min(maxResults, PositiveCount(chunks))
           /\ tier = "longest"
                => Len(relevantChunks) = Min(Min(maxResults, 3), Len(chunks))
           /\ tier = "none" => Len(chunks) = 0 /\ Len(relevantChunks) = 0

\* C4 witness: the longest-chunk rule had more than three chunks to choose from
\* and more than three were asked for
OutputLengthWitness ==
    /\ pc = "save"
    /\ tier = "longest"
    /\ Len(chunks) > 3
    /\ maxResults > 3
    /\ Len(relevantChunks) = 3

\* C5 as stated: in every selection path the output is in descending
\* relevanceScore order, equal scores in ascending chunkIndex order.
OutputOrderAsStated ==
    pc = "save"
        => \A p, q \in 1..Len(relevantChunks) :
              p < q => \/ ScoreOf(relevantChunks, p) > ScoreOf(relevantChunks, q)
                       \/ /\ ScoreOf(relevantChunks, p) = ScoreOf(relevantChunks, q)
                          /\ relevantChunks[p].chunkIndex < relevantChunks[q].chunkIndex

\* C5 amended: that order holds in the strict and the lenient path; in the
\* longest-chunk path all scores are equal and the output is in descending content
\* length order, equal lengths in ascending chunkIndex order.
OutputOrder ==
    pc = "save"
        => \A p, q \in 1..Len(relevantChunks) :
              p < q =>
                IF tier = "longest"
                THEN /\ ScoreOf(relevantChunks, p) = ScoreOf(relevantChunks, q)
                     /\ \/ Len(relevantChunks[p].content) > Len(relevantChunks[q].content)
                        \/ /\ Len(relevantChunks[p].content) = Len(relevantChunks[q].content)
                           /\ relevantChunks[p].chunkIndex < relevantChunks[q].chunkIndex
                ELSE \/ ScoreOf(relevantChunks, p) > ScoreOf(relevantChunks, q)
                     \/ /\ ScoreOf(relevantChunks, p) = ScoreOf(relevantChunks, q)
                        /\ relevantChunks[p].chunkIndex < relevantChunks[q].chunkIndex

\* C5 witness: the strict pass returned a later chunk before an earlier one of
\* lower score
OutputOrderWitness ==
    /\ pc = "save"
    /\ tier = "strict"
    /\ \E p, q \in 1..Len(relevantChunks) :
          /\ p < q
          /\ relevantChunks[p].chunkIndex > relevantChunks[q].chunkIndex
          /\ ScoreOf(relevantChunks, p) > ScoreOf(relevantChunks, q)
          /\ ScoreOf(relevantChunks, q) > 0

\* no query word occurs in any chunk (case-insensitively)
NoWordOccurs(chs, queryWords) ==
    \A k \in 1..Len(chs) : \A n \in 1..Len(queryWords) :
        ~includes(toLowerCase(chs[k].content), queryWords[n])

\* no variation the lenient scorer tries occurs in any chunk
NoVariationOccurs(chs, queryWords) ==
    \A k \in 1..Len(chs) : \A n \in 1..Len(queryWords) :
        \A v \in 1..5 :
            Len(wordVariations(queryWords[n])[v]) > 2
                => ~includes(toLowerCase(chs[k].content), wordVariations(queryWords[n])[v])

NoLetterIn(chs) == \A k \in 1..Len(chs) : ~HasLowerLetter(toLowerCase(chs[k].content))

\* the output is made of count longest chunks of chs, each with score 0.1
LongestWithTenth(output, chs, count) ==
    /\ Len(output) = count
    /\ \A p \in 1..Len(output) : output[p].relevanceScore = Tenth
    /\ \A p, q \in 1..Len(output) : p # q => output[p].chunkIndex # output[q].chunkIndex
    /\ \A p \in 1..Len(output) : \E k \in 1..Len(chs) :
          /\ chs[k].chunkIndex = output[p].chunkIndex
          /\ chs[k].content = output[p].content
    /\ \A p \in 1..Len(output) : \A k \in 1..Len(chs) :
          (\A q \in 1..Len(output) : output[q].chunkIndex # chs[k].chunkIndex)
              => Len(output[p].content) >= Len(chs[k].content)

\* C6 as stated: when no query word occurs in any chunk and chunks exist, the
\* output is the at most 3 longest chunks, each with relevanceScore exactly 0.1.
NoMatchOutputAsStated ==
    (pc = "save" /\ Len(chunks) >= 1 /\ NoWordOccurs(chunks, QueryWords(searchQuery)))
        => LongestWithTenth(relevantChunks, chunks, Min(Min(maxResults, 3), Len(chunks)))

\* no query word, read as a regular expression, matches in any chunk
NoPatternMatches(chs, queryWords) ==
    \A k \in 1..Len(chs) : \A n \in 1..Len(queryWords) :
        MatchCount(toLowerCase(chs[k].content), queryWords[n], 1, FALSE) = 0

\* C6 amended: when no query word occurs in any chunk, as a substring or as a
\* regular-expression match, no variation of a query word occurs in any chunk,
\* no chunk contains a letter a-z after lower-casing and chunks exist, the output
\* is the min(maxResults, 3, number of chunks) longest chunks, each with
\* relevanceScore exactly 0.1.
NoMatchOutput ==
    (/\ pc = "save"
     /\ Len(chunks) >= 1
     /\ NoWordOccurs(chunks, QueryWords(searchQuery))
     /\ NoPatternMatches(chunks, QueryWords(searchQuery))
     /\ NoVariationOccurs(chunks, QueryWords(searchQuery))
     /\ NoLetterIn(chunks))
        => /\ tier = "longest"
           /\ LongestWithTenth(relevantChunks, chunks, Min(Min(maxResults, 3), Len(chunks)))

\* C6 witness: a query with a word, four letter-free chunks of two lengths, none
\* matching; a short chunk was left out for a longer, later one
NoMatchOutputWitness ==
    /\ pc = "save"
    /\ Len(QueryWords(searchQuery)) >= 1
    /\ Len(chunks) >= 4
    /\ NoWordOccurs(chunks, QueryWords(searchQuery))
    /\ NoPatternMatches(chunks, QueryWords(searchQuery))
    /\ NoVariationOccurs(chunks, QueryWords(searchQuery))
    /\ NoLetterIn(chunks)
    /\ Len(relevantChunks) = 3
    /\ \E k \in 1..Len(chunks) : \E p \in 1..Len(relevantChunks) :
          /\ \A q \in 1..Len(relevantChunks) :
                relevantChunks[q].chunkIndex # chunks[k].chunkIndex
          /\ chunks[k].chunkIndex < relevantChunks[p].chunkIndex
          /\ Len(chunks[k].content) < Len(relevantChunks[p].content)

AnyStrictPositive(chs, queryWords) ==
    \E k \in 1..Len(chs) : Positive(calculateRelevanceScore(chs[k].content, queryWords))

AnyLenientPositive(chs, queryWords) ==
    \E k \in 1..Len(chs) : Positive(calculateLenientRelevanceScore(chs[k].content, queryWords))

\* C7: the lenient pass runs only if no chunk has a positive strict score, the
\* longest-chunk rule only if in addition no chunk has a positive lenient score,
\* and when some chunk has a positive strict score every score of the output (and
\* of the scored chunks) is a strict score.
SelectionShortCircuits ==
    pc = "save"
        => LET queryWords == QueryWords(searchQuery)
           IN  /\ tier = "lenient" => ~AnyStrictPositive(chunks, queryWords)
               /\ tier = "longest" => /\ ~AnyStrictPositive(chunks, queryWords)
                                      /\ ~AnyLenientPositive(chunks, queryWords)
               /\ AnyStrictPositive(chunks, queryWords)
                    => /\ tier = "strict"
                       /\ Len(relevantChunks) >= 1
                       /\ \A p \in 1..Len(relevantChunks) :
                             relevantChunks[p].relevanceScore =
                                calculateRelevanceScore(relevantChunks[p].content, queryWords)
                       /\ \A k \in 1..Len(chunks) :
                             chunks[k].relevanceScore =
                                calculateRelevanceScore(chunks[k].content, queryWords)
               /\ (~AnyStrictPositive(chunks, queryWords)
                   /\ AnyLenientPositive(chunks, queryWords))
                    => /\ tier = "lenient"
                       /\ \A p \in 1..Len(relevantChunks) :
                             relevantChunks[p].relevanceScore =
                                calculateLenientRelevanceScore(relevantChunks[p].content,
                                                               queryWords)

\* C7 witness: of two query words one matches a chunk exactly and the other
\* matches nothing; the strict pass selected the result and left a chunk out
SelectionWitness ==
    /\ pc = "save"
    /\ tier = "strict"
    /\ Len(QueryWords(searchQuery)) = 2
    /\ Len(relevantChunks) >= 1
    /\ PositiveCount(chunks) < Len(chunks)
    /\ \E k \in 1..Len(chunks) :
          /\ MatchCount(toLowerCase(chunks[k].content), QueryWords(searchQuery)[1], 1, TRUE) >= 1
          /\ ~includes(toLowerCase(chunks[k].content), QueryWords(searchQuery)[2])

\* C8: after a ranking pass every relevanceScore, of the returned chunks and of
\* the chunks that were scored, is a number in [0, 1], and the strict and the
\* lenient scorer return a value in [0, 1] for every chunk.
ScoresInUnitInterval ==
    pc = "save"
        => /\ \A k \in 1..Len(chunks) : InUnitInterval(chunks[k].relevanceScore)
           /\ \A p \in 1..Len(relevantChunks) : InUnitInterval(relevantChunks[p].relevanceScore)
           /\ \A k \in 1..Len(chunks) :
                 /\ InUnitInterval(calculateRelevanceScore(chunks[k].content,
                                                           QueryWords(searchQuery)))
                 /\ InUnitInterval(calculateLenientRelevanceScore(chunks[k].content,
                                                                  QueryWords(searchQuery)))

\* C9: when queryWords is empty, the strict and the lenient score of every chunk
\* are exactly 0.
EmptyQueryScoresZero ==
    (pc \in {"search", "save"} /\ QueryWords(searchQuery) = <<>>)
        => \A k \in 1..Len(chunks) :
              /\ calculateRelevanceScore(chunks[k].content, <<>>) = Zero
              /\ calculateLenientRelevanceScore(chunks[k].content, <<>>) = Zero
              /\ pc = "save" => chunks[k].relevanceScore = Zero

\* C10: the ranker raises no exception, whatever the query.
RankerNeverThrows == pc # "catch" /\ errorMessage = ""

(***************************************************************************)
(* Properties of the markup reducer                                        *)
(***************************************************************************)
\* s holds a "<" and, somewhere after it, a ">"
HasTag(s) == \E p, q \in 1..Len(s) : p < q /\ s[p] = "<" /\ s[q] = ">"

\* s holds one of the six entities the reducer decodes
HasEntity(s) ==
    \E lit \in {EntityNbsp, EntityAmp, EntityLt, EntityGt, EntityQuot, EntityApos} :
        includes(s, lit)

\* s holds an encoded ampersand or angle bracket
EncodesMarkup(s) == includes(s, EntityAmp) \/ includes(s, EntityLt) \/ includes(s, EntityGt)

\* C11 as stated: for every page, reducing the reducer's output again changes
\* nothing.
ReduceIdempotentAsStated == pc = "reparsed" => recleaned = cleanedContent

\* C11: for every page whose text, once the markup is stripped and before the
\* entities are decoded, holds none of &amp; &lt; &gt;, reducing the reducer's
\* output again changes nothing.
ReduceIdempotent ==
    (pc = "reparsed" /\ ~EncodesMarkup(StripMarkup(htmlContent)))
        => recleaned = cleanedContent

\* C11 witness: a page with a tag and an entity was reduced to a text, and that
\* text was reduced again
ReduceIdempotentWitness ==
    /\ pc = "reparsed"
    /\ ~EncodesMarkup(StripMarkup(htmlContent))
    /\ HasTag(htmlContent)
    /\ HasEntity(htmlContent)
    /\ Len(cleanedContent) >= 2
    /\ recleaned = cleanedContent

\* C12 as stated: the reducer's output holds no tag and none of the six entities.
NoMarkupLeftAsStated ==
    pc = "parsed" => ~HasTag(cleanedContent) /\ ~HasEntity(cleanedContent)

\* C12: for every page whose text, once the markup is stripped and before the
\* entities are decoded, holds none of &amp; &lt; &gt;, the reducer's output holds
\* no tag and none of the six entities.
NoMarkupLeft ==
    (pc = "parsed" /\ ~EncodesMarkup(StripMarkup(htmlContent)))
        => ~HasTag(cleanedContent) /\ ~HasEntity(cleanedContent)

\* C12 witness: a page with a tag and with &quot; was reduced to a text that
\* holds the decoded quotation mark
NoMarkupLeftWitness ==
    /\ pc = "parsed"
    /\ ~EncodesMarkup(StripMarkup(htmlContent))
    /\ HasTag(htmlContent)
    /\ includes(htmlContent, EntityQuot)
    /\ includes(cleanedContent, <<"\"">>)
    /\ includes(cleanedContent, <<"a">>)

\* a closing </p> stands at p between two letters of the page
ParagraphBreakAt(s, p) ==
    /\ p > 1
    /\ p + 4 <= Len(s)
    /\ StartsWithIgnoreCaseAt(s, p, <<"<", "/", "p", ">">>)
    /\ s[p - 1] \in {"a", "b"}
    /\ s[p + 4] \in {"a", "b"}

\* C13: when a closing block-level tag stands between two text runs of the page,
\* the reducer's output holds a newline.
ParagraphBreaksKept ==
    (pc = "parsed" /\ \E p \in 1..Len(htmlContent) : ParagraphBreakAt(htmlContent, p))
        => includes(cleanedContent, <<"\n">>)

ScriptOpen == <<"<", "s", "c", "r", "i", "p", "t", ">">>
ScriptClose == <<"<", "/", "s", "c", "r", "i", "p", "t", ">">>
StyleOpen == <<"<", "s", "t", "y", "l", "e", ">">>
StyleClose == <<"<", "/", "s", "t", "y", "l", "e", ">">>

\* the page from position p on is text without "<" and "&", closing </p> tags and
\* complete script and style blocks whose bodies hold no "<"; inside is the
\* closing tag awaited
RECURSIVE WellFormedFrom(_, _, _)
WellFormedFrom(s, p, inside) ==
    IF p > Len(s) THEN inside = <<>>
    ELSE IF inside # <<>>
         THEN IF StartsWithIgnoreCaseAt(s, p, inside)
              THEN WellFormedFrom(s, p + Len(inside), <<>>)
              ELSE s[p] # "<" /\ WellFormedFrom(s, p + 1, inside)
         ELSE IF StartsWithIgnoreCaseAt(s, p, ScriptOpen)
              THEN WellFormedFrom(s, p + Len(ScriptOpen), ScriptClose)
         ELSE IF StartsWithIgnoreCaseAt(s, p, StyleOpen)
              THEN WellFormedFrom(s, p + Len(StyleOpen), StyleClose)
         ELSE IF StartsWithIgnoreCaseAt(s, p, <<"<", "/", "p", ">">>)
              THEN WellFormedFrom(s, p + 4, <<>>)
         ELSE s[p] \notin {"<", "&"} /\ WellFormedFrom(s, p + 1, <<>>)

\* the characters of such a page that stand outside the blocks, a space for
\* every tag and every block
RECURSIVE TextOutsideFrom(_, _, _)
TextOutsideFrom(s, p, inside) ==
    IF p > Len(s) THEN <<>>
    ELSE IF inside # <<>>
         THEN IF StartsWithIgnoreCaseAt(s, p, inside)
              THEN TextOutsideFrom(s, p + Len(inside), <<>>)
              ELSE TextOutsideFrom(s, p + 1, inside)
         ELSE IF StartsWithIgnoreCaseAt(s, p, ScriptOpen)
              THEN TextOutsideFrom(s, p + Len(ScriptOpen), ScriptClose)
         ELSE IF StartsWithIgnoreCaseAt(s, p, StyleOpen)
              THEN TextOutsideFrom(s, p + Len(StyleOpen), StyleClose)
         ELSE IF StartsWithIgnoreCaseAt(s, p, <<"<", "/", "p", ">">>)
              THEN <<" ">> \o TextOutsideFrom(s, p + 4, <<>>)
         ELSE <<s[p]>> \o TextOutsideFrom(s, p + 1, <<>>)

\* C14: for a page made of plain text, closing </p> tags and well-formed, non-nested
\* script and style blocks, the reducer's output is the text outside the blocks
\* in its order, single-spaced, with no whitespace at either end and nothing of
\* the blocks' bodies.
ScriptsRemoved ==
    (pc = "parsed" /\ WellFormedFrom(htmlContent, 1, <<>>))
        => /\ cleanedContent = JoinSpace(SplitWords(TextOutsideFrom(htmlContent, 1, <<>>)))
           /\ cleanedContent = trim(cleanedContent)

\* C14 witness: a page of a letter and a script block whose body is the other
\* letter was reduced to the outer letter
ScriptsRemovedWitness ==
    /\ pc = "parsed"
    /\ WellFormedFrom(htmlContent, 1, <<>>)
    /\ \E outer, body \in {"a", "b"} :
          /\ outer # body
          /\ htmlContent = <<outer>> \o ScriptOpen \o <<body>> \o ScriptClose
          /\ cleanedContent = <<outer>>

(***************************************************************************)
(* Properties of the fetcher and of the serve handler                      *)
(***************************************************************************)
\* C15: a run whose primary response carried a non-2xx status or a content type
\* that is not HTML failed at once: the primary request is the only request it
\* sent, and it is in the catch block or has answered 500 with the fetch error.
PrimaryRejectionImmediate ==
    \A id \in SearchIds :
        (/\ run[id].primary.reached
         /\ ~run[id].primary.ok \/ ~includes(run[id].primary.contentType, HtmlType))
            => /\ run[id].sent = <<"primary">>
               /\ run[id].pc \in {"catch", "responded"}
               /\ run[id].response # 200
               /\ run[id].error \in {"Failed to fetch website", "Invalid content type"}

\* C15 witness: a run got a 2xx response that is not HTML and answered 500 after
\* one request
PrimaryRejectionWitness ==
    \E id \in SearchIds :
        /\ run[id].primary.reached
        /\ run[id].primary.ok
        /\ ~includes(run[id].primary.contentType, HtmlType)
        /\ run[id].sent = <<"primary">>
        /\ run[id].pc = "responded"
        /\ run[id].response = 500

\* the secondary response was read and is strictly longer than the primary content
SecondaryWins(r) ==
    /\ r.secondary.reached
    /\ r.secondary.ok
    /\ BodyLength(r.secondary.body) > BodyLength(r.primary.body)

\* C16: once the reader request of a run has been made, the content of the fetch
\* is the secondary content if that request succeeded with strictly longer
\* content and the primary content otherwise, and the fetch has not failed.
SecondaryChoice ==
    \A id \in SearchIds :
        run[id].sent = <<"primary", "secondary">>
            => /\ run[id].content = IF SecondaryWins(run[id])
                                    THEN run[id].secondary.body
                                    ELSE run[id].primary.body
               /\ run[id].error \in {"", "Invalid regular expression"}
               /\ run[id].pc # "fetchSecondary"

\* C16 witness: one run took the longer secondary content while the other kept
\* its primary content against a secondary content of the same length
SecondaryChoiceWitness ==
    \E id, other \in SearchIds :
        /\ run[id].sent = <<"primary", "secondary">>
        /\ SecondaryWins(run[id])
        /\ run[id].content = run[id].secondary.body
        /\ run[id].content # run[id].primary.body
        /\ run[other].sent = <<"primary", "secondary">>
        /\ run[other].secondary.ok
        /\ BodyLength(run[other].secondary.body) = BodyLength(run[other].primary.body)
        /\ run[other].content = run[other].primary.body

IsPrefix(s, t) == Len(s) <= Len(t) /\ s = SubSeq(t, 1, Len(s))

\* C17: the statuses written to the row of a search identifier are a prefix of
\* pending, processing, completed or of pending, processing, failed, and
\* 'processing' has been written when the run is about to fetch or has fetched.
StatusOrder ==
    \A id \in SearchIds :
        /\ \/ IsPrefix(statusWrites[id], <<"pending", "processing", "completed">>)
           \/ IsPrefix(statusWrites[id], <<"pending", "processing", "failed">>)
        /\ (run[id].pc = "fetchPrimary" \/ run[id].sent # <<>>)
              => /\ Len(statusWrites[id]) >= 2
                 /\ statusWrites[id][2] = "processing"

\* C17 witness: a run fetched twice and answered after pending, processing and
\* completed were written, in that order
StatusOrderWitness ==
    \E id \in SearchIds :
        /\ run[id].pc = "responded"
        /\ run[id].sent = <<"primary", "secondary">>
        /\ statusWrites[id] = <<"pending", "processing", "completed">>

\* C18: a run that has answered after its fetch failed, with 'processing' written
\* before, left status 'failed' and the error text on the search record.
FetchFailureRecorded ==
    \A id \in SearchIds :
        (/\ run[id].pc = "responded"
         /\ run[id].sent = <<"primary">>
         /\ run[id].error \in {"error sending request", "Failed to fetch website",
                               "Invalid content type"})
            => /\ searches[id].status = "failed"
               /\ searches[id].error_message = run[id].error

\* the run has passed the chunker and the ranker
Processed(r) ==
    \/ r.pc \in {"saveTotal", "insertResults", "markCompleted"}
    \/ r.pc \in {"catch", "responded"} /\ r.sent # <<>>
          /\ r.error \in {"", "Invalid regular expression"}

\* C19: when the page of a run reduced to the empty text, the chunker returned no
\* chunk, the ranker returned no chunk under no selection rule, nothing was
\* thrown, and the run that has answered answered 200 and left status
\* 'completed' with results_count 0.
EmptyPageCompletes ==
    \A id \in SearchIds :
        (Processed(run[id]) /\ run[id].cleanedContent = <<>>)
            => /\ run[id].totalChunks = 0
               /\ run[id].relevantChunks = <<>>
               /\ run[id].tier = "none"
               /\ run[id].pc # "catch"
               /\ run[id].pc = "responded"
                     => /\ run[id].response = 200
                        /\ searches[id].status = "completed"
                        /\ searches[id].results_count = 0

\* C19 witness: a run whose query holds "(" answered 200 for a page whose text is
\* one space
EmptyPageWitness ==
    \E id \in SearchIds :
        /\ run[id].pc = "responded"
        /\ run[id].response = 200
        /\ run[id].content.text = <<"<", "b", "o", "d", "y", ">", " ", "<", "/", "b", "o", "d", "y", ">">>
        /\ run[id].request.searchQuery = <<"(", "a", "b">>
        /\ run[id].cleanedContent = <<>>
        /\ searches[id].status = "completed"
        /\ searches[id].results_count = 0

\* the content fetchWebsiteContent returns for the responses r received
FetchedContent(r) ==
    IF ThinContent(r.primary.body)
    THEN ContentAfterSecondary(r.primary.body, r.secondary)
    ELSE r.primary.body

\* the row a run with the request and the responses of r leaves when it runs alone
AloneRow(r) ==
    IF ~r.request.valid THEN PendingRow
    ELSE IF ~r.primary.reached \/ ~r.primary.ok
            \/ ~includes(r.primary.contentType, HtmlType)
    THEN [PendingRow EXCEPT !.status = "processing"]
    ELSE LET outcome == PipelineOutcome(FetchedContent(r), r.request)
         IN  IF outcome.error # "" THEN [PendingRow EXCEPT !.status = "processing"]
             ELSE [PendingRow EXCEPT !.status = "completed",
                                     !.processing_time_ms = "measured",
                                     !.total_chunks = Len(outcome.chunks),
                                     !.results_count = Len(outcome.relevantChunks)]

\* the rows of search_results a run with the request and the responses of r
\* inserts for the search identifier id when it runs alone
AloneResults(id, r) ==
    IF ~r.request.valid \/ ~r.primary.reached \/ ~r.primary.ok
          \/ ~includes(r.primary.contentType, HtmlType)
    THEN <<>>
    ELSE ResultRows(id, PipelineOutcome(FetchedContent(r), r.request).relevantChunks)

RECURSIVE RowsOf(_, _)
RowsOf(rows, id) ==
    IF rows = <<>> THEN <<>>
    ELSE IF Head(rows).search_id = id THEN <<Head(rows)>> \o RowsOf(Tail(rows), id)
         ELSE RowsOf(Tail(rows), id)

\* C20: when both runs have answered, however their steps interleaved, the row
\* and the persisted chunks of each search identifier are those its run leaves
\* when it runs alone on the same request and the same responses.
RunsIsolated ==
    (\A id \in SearchIds : run[id].pc = "responded")
        => \A id \in SearchIds :
              /\ searches[id] = AloneRow(run[id])
              /\ RowsOf(searchResults, id) = AloneResults(id, run[id])

\* C20 witness: both runs answered 200 with different numbers of results, and the
\* rows of s2 were inserted before those of s1
RunsIsolatedWitness ==
    /\ \A id \in SearchIds : run[id].pc = "responded" /\ run[id].response = 200
    /\ searches["s1"].results_count = 1
    /\ searches["s2"].results_count = 2
    /\ Head(searchResults).search_id = "s2"
    /\ searchResults[Len(searchResults)].search_id = "s1"

\* the primary response of r is a 2xx HTML response whose body is shorter than
\* 500 characters or holds no "<body"
ThinHtmlPrimary(r) ==
    /\ r.primary.reached
    /\ r.primary.ok
    /\ includes(r.primary.contentType, HtmlType)
    /\ BodyLength(r.primary.body) < 500 \/ ~includes(r.primary.body.text, <<"<", "b", "o", "d", "y">>)

\* C21: a run that has its primary response issues the reader request, or has
\* issued it, exactly when that response is a 2xx HTML response with a thin
\* body; the requests of a run are the primary request, then at most one reader
\* request.
SecondaryExactlyWhenThin ==
    \A id \in SearchIds :
        /\ IsPrefix(run[id].sent, <<"primary", "secondary">>)
        /\ run[id].sent # <<>>
              => ((run[id].pc = "fetchSecondary" \/ Len(run[id].sent) = 2)
                     <=> ThinHtmlPrimary(run[id]))

\* C21 witness: one run made the reader request for a page of more than 500
\* characters without "<body" and has answered; the other run went on without it
\* for a full page
SecondaryWhenThinWitness ==
    \E id, other \in SearchIds :
        /\ run[id].pc = "responded"
        /\ run[id].sent = <<"primary", "secondary">>
        /\ BodyLength(run[id].primary.body) > 500
        /\ run[other].pc = "responded"
        /\ run[other].sent = <<"primary">>
        /\ run[other].primary.ok
        /\ run[other].response = 200

(***************************************************************************)
(* Properties of the chunker's sizes                                       *)
(***************************************************************************)
WordCount(chunk) == Len(SplitWords(chunk.content))

\* C22: for a text of w >= 1 words and maxTokensPerChunk >= 2, with
\* wordsPerChunk = floor(maxTokensPerChunk * 0.75), the chunker returns exactly
\* ceil(w / wordsPerChunk) chunks; every chunk but the last holds wordsPerChunk
\* words and the last holds between 1 and wordsPerChunk words.
ChunkCountExact ==
    (pc = "search" /\ maxTokensPerChunk >= 2 /\ Len(words) >= 1)
        => LET wordsPerChunk == (maxTokensPerChunk * 3) \div 4
               n             == Len(chunks)
           IN  /\ n = (Len(words) + wordsPerChunk - 1) \div wordsPerChunk
               /\ \A k \in 1..(n - 1) : WordCount(chunks[k]) = wordsPerChunk
               /\ WordCount(chunks[n]) >= 1
               /\ WordCount(chunks[n]) <= wordsPerChunk

\* C22 witness: three words cut with maxTokensPerChunk = 3 gave a chunk of two
\* words and a last chunk of one word
ChunkCountWitness ==
    /\ pc = "search"
    /\ maxTokensPerChunk = 3
    /\ Len(words) = 3
    /\ Len(chunks) = 2
    /\ WordCount(chunks[1]) = 2
    /\ WordCount(chunks[2]) = 1

\* C23: every chunk the chunker emitted has tokens equal to
\* min(ceil(characterLength / 4), maxTokensPerChunk), an integer between 1 and
\* maxTokensPerChunk.
TokensEstimate ==
    pc \in {"chunkLoop", "search"}
        => \A k \in 1..Len(chunks) :
              LET quarters == (Len(chunks[k].content) + 3) \div 4
              IN  /\ chunks[k].tokens = Min(quarters, maxTokensPerChunk)
                  /\ chunks[k].tokens \in 1..maxTokensPerChunk

\* C23 witness: one returned chunk was capped at maxTokensPerChunk and another
\* one kept its estimate below the cap
TokensEstimateWitness ==
    /\ pc = "search"
    /\ \E k, l \in 1..Len(chunks) :
          /\ (Len(chunks[k].content) + 3) \div 4 > maxTokensPerChunk
          /\ chunks[k].tokens = maxTokensPerChunk
          /\ chunks[l].tokens < maxTokensPerChunk
          /\ chunks[l].tokens = (Len(chunks[l].content) + 3) \div 4

(***************************************************************************)
(* Properties of detectContentContext                                      *)
(***************************************************************************)
\* the lower-cased content holds one of the keywords kws
HasKeyword(content, kws) == \E kw \in kws : includes(toLowerCase(content), kw)

FooterWords == {KwCopyrightMark, KwCopyright}
NavigationWords == {KwNavigation, KwMenu}
ContactWords == {KwContact, KwEmail, KwPhone}

\* C24: the label is decided by the first matching check in the order footer,
\* navigation, heading, contact, content: a footer keyword gives 'footer' even
\* next to 'menu'; a content shorter than 100 characters with no footer or
\* navigation keyword is 'heading' even with a contact keyword; 'contact' is
\* given only to contents of at least 100 characters.
ContextByFirstMatch ==
    pc = "detected"
        => LET footer     == HasKeyword(contextContent, FooterWords)
               navigation == HasKeyword(contextContent, NavigationWords)
               short      == Len(contextContent) < 100
               contact    == HasKeyword(contextContent, ContactWords)
           IN  /\ footer => htmlTagContext = "footer"
               /\ ~footer /\ navigation => htmlTagContext = "navigation"
               /\ ~footer /\ ~navigation /\ short => htmlTagContext = "heading"
               /\ ~footer /\ ~navigation /\ ~short /\ contact => htmlTagContext = "contact"
               /\ ~footer /\ ~navigation /\ ~short /\ ~contact => htmlTagContext = "content"
               /\ htmlTagContext = "contact" => Len(contextContent) >= 100

\* C24 witness: a content of 99 characters that holds 'contact' and 'email' and
\* no footer or navigation keyword was labelled 'heading'
ContextWitness ==
    /\ pc = "detected"
    /\ Len(contextContent) = 99
    /\ HasKeyword(contextContent, {KwContact})
    /\ HasKeyword(contextContent, {KwEmail})
    /\ ~HasKeyword(contextContent, FooterWords \cup NavigationWords)
    /\ htmlTagContext = "heading"

(***************************************************************************)
(* Properties of the lenient scorer and of the ranker's frame              *)
(***************************************************************************)
\* C25: in the lenient scorer each query word adds exactly one of 1 (the word is
\* a substring of the content), 0.3 (it is not, but one of its variations longer
\* than 2 characters is) or 0 to the raw sum, so never more than 1.
LenientWordAddsOnce ==
    pc = "save"
        => \A k \in 1..Len(chunks) :
              \A q \in 1..Len(QueryWords(searchQuery)) :
                 LET contentLower == toLowerCase(chunks[k].content)
                     word         == QueryWords(searchQuery)[q]
                     tenths       == LenientWordTenths(contentLower, word)
                 IN  /\ tenths \in {10, 3, 0}
                     /\ tenths = 10 <=> includes(contentLower, word)

\* some character of s is a letter
HasLetter(s) == HasLowerLetter(toLowerCase(s))

\* C26: whenever the lenient pass ran, every chunk whose content holds a letter
\* has a lenient score of at least 0.1, for every query, so the longest-chunk
\* rule is reached only when no chunk holds a letter.
LenientFloorForLetters ==
    (pc = "save" /\ tier \in {"lenient", "longest"})
        => /\ \A k \in 1..Len(chunks) :
                 HasLetter(chunks[k].content)
                     => /\ Positive(chunks[k].relevanceScore)
                        /\ chunks[k].relevanceScore.micro >= Tenth.micro
           /\ tier = "longest" => \A k \in 1..Len(chunks) : ~HasLetter(chunks[k].content)

\* the chunks without their relevanceScore
WithoutScores(chs) == [k \in 1..Len(chs) |-> [chs[k] EXCEPT !.relevanceScore = Zero]]

\* C27: in every selection path the ranker leaves the order of the chunk sequence
\* it was given and every chunk's content, tokens, chunkIndex and context label
\* as they were; the only field it writes is relevanceScore.
RankerFrame ==
    pc = "save"
        => WithoutScores(chunks) = WithoutScores(tokenizeAndChunk(cleanedContent, maxTokensPerChunk))

(***************************************************************************)
(* Properties of the completed record                                      *)
(***************************************************************************)
\* C28: whenever the record of a search has status 'completed', the ranked chunks
\* of its run are already in search_results, and the record's results_count is
\* the number of rows inserted for that search id.
CompletedAfterInsert ==
    \A id \in SearchIds :
        searches[id].status = "completed"
            => /\ RowsOf(searchResults, id) = ResultRows(id, run[id].relevantChunks)
               /\ searches[id].results_count = Len(RowsOf(searchResults, id))

\* C28 witness: one record is 'completed' with two persisted chunks while the
\* other run has ranked its chunks and not inserted them yet
CompletedAfterInsertWitness ==
    \E id, other \in SearchIds :
        /\ searches[id].status = "completed"
        /\ searches[id].results_count = 2
        /\ Len(RowsOf(searchResults, id)) = 2
        /\ run[other].pc = "insertResults"
        /\ run[other].relevantChunks # <<>>
        /\ searches[other].status = "processing"
        /\ RowsOf(searchResults, other) = <<>>

(***************************************************************************)
(* Properties of the hook                                                  *)
(***************************************************************************)
\* C29: a polling chain reads the search record at most 30 times, and when it
\* has stopped the hook's status is 'completed' or 'error', whatever status the
\* record had: the hook is never left in 'processing' with no poll scheduled.
PollingEndsDecided ==
    /\ hook.attempts <= 30
    /\ (hook.poll = "stopped" /\ ~hook.cleared) => hook.status \in {"completed", "error"}

\* C30: once clearResults has set status 'idle' and currentResult null, both
\* stay so until the next performSearch call, also when a poll or a
\* performSearch continuation started before clearResults completes after it.
ClearedStaysCleared ==
    hook.cleared => hook.status = "idle" /\ hook.currentResult = NullResult

====
